---------------------------- MODULE Spec2Model ----------------------------
(***************************************************************************)
(* A model of the couchbase-cluster-go bootstrap agent (src/cluster.go).   *)
(*                                                                         *)
(* Every agent runs StartCouchbaseNode: it tries to become the first node  *)
(* by creating the membership directory in etcd, starts the local service, *)
(* initialises the cluster or joins a live peer, and then publishes its    *)
(* liveness for ever in EventLoop.                                         *)
(*                                                                         *)
(* Text is modelled as a sequence: addresses and keys character by         *)
(* character, error messages and status strings word by word, so that      *)
(* strings.Contains, path.Join and path.Split are computed, not assumed.   *)
(* Time advances by the period of EventLoop per Tick.                      *)
(***************************************************************************)
EXTENDS Integers, Sequences, FiniteSets, TLC

VARIABLES
    etcd,          \* the coordination store: the membership directory and its children
    winners,       \* agents whose election created the directory that exists now
    dirCreatedBy,  \* what brought the directory that exists now into existence
    pc,            \* per agent: the place StartCouchbaseNode has reached
    sleepLeft,     \* per agent: seconds left of the EventLoop sleep
    cb,            \* per agent: the CouchbaseCluster struct
    serverBuckets, \* per agent: the buckets of its Couchbase server
    loc,           \* per agent: local variables of the running functions
    hist,          \* per agent: what the run has done so far (observations only)
    retErr,        \* per agent: the error StartCouchbaseNode returned
    rl             \* one RetryLoop call: its local variables and what it has done

vars == <<etcd, winners, dirCreatedBy, pc, sleepLeft, cb, serverBuckets, loc, hist, retErr, rl>>

---------------------------------------------------------------------------
(* Bounds of the model *)

\* number of agents sharing the coordination store
NumAgents == 2

\* worker invocations explored in one RetryLoop call
MaxWorkerCalls == 3

\* the largest maxAttempts a waiter is called with
MaxMaxAttempts == 2

\* the largest numNodes WaitUntilNumNodesRunning is called with
MaxNumNodes == 3

---------------------------------------------------------------------------
(* Program constants *)

TTL_NONE == 0
MAX_RETRIES_JOIN_CLUSTER == 10
MAX_RETRIES_START_COUCHBASE == 10

\* EventLoop: ttlSeconds := uint64(10)
ttlSeconds == 10

KEY_NODE_STATE ==
    <<"/", "c", "o", "u", "c", "h", "b", "a", "s", "e", ".", "c", "o", "m",
      "/", "c", "o", "u", "c", "h", "b", "a", "s", "e", "-", "n", "o", "d",
      "e", "-", "s", "t", "a", "t", "e">>

Agents == 1 .. NumAgents

\* the agent whose StartCouchbaseNode run is followed statement by statement
Local == 1

Digits == <<"1", "2", "3", "4", "5", "6", "7", "8", "9">>

\* the address an agent is configured with (LocalCouchbaseIp)
IpOf(a) == <<"1", "0", ".", "0", ".", "0", ".", Digits[a]>>

---------------------------------------------------------------------------
(* Text *)

\* a nil error
NoErr == <<>>

\* strings.Contains(s, sub)
Contains(s, sub) ==
    \E k \in 0 .. (Len(s) - Len(sub)) : SubSeq(s, k + 1, k + Len(sub)) = sub

\* index of the last "/" of s, 0 when there is none
LastSlash(s) ==
    LET found == {k \in 1 .. Len(s) : s[k] = "/"}
    IN  IF found = {} THEN 0 ELSE CHOOSE k \in found : \A m \in found : m <= k

\* path.Split(p): the second result, the text after the final slash
PathSplitFile(p) == SubSeq(p, LastSlash(p) + 1, Len(p))

\* path.Join(dir, elem) for a clean dir and a non-empty elem without slashes
PathJoin(dir, elem) == dir \o <<"/">> \o elem

---------------------------------------------------------------------------
(* The coordination store (etcd v2, reached through go-etcd).              *)
(* A store value is [dir, ttl, nodes]: whether KEY_NODE_STATE exists, the  *)
(* seconds it has left (TTL_NONE: it never expires) and its children, a    *)
(* function from child key to the seconds that child has left.             *)

NoNodes == [k \in {} |-> 0]

EmptyStore == [dir |-> FALSE, ttl |-> TTL_NONE, nodes |-> NoNodes]

\* etcd error 105, returned by a create of a key that exists
ErrKeyExists == <<"105:", "Key", "already", "exists">>

\* etcd error 100, returned by a read or update of a key that does not exist
ErrKeyNotFound == <<"100:", "Key", "not", "found">>

\* go-etcd's error when no etcd machine answers
ErrEtcdDown == <<"501:", "All", "the", "given", "peers", "are", "not", "reachable">>

\* etcdClient.CreateDir(KEY_NODE_STATE, ttl): atomic create-if-absent
EtcdCreateDir(st, ttl) ==
    IF st.dir
    THEN [err |-> ErrKeyExists, st |-> st]
    ELSE [err |-> NoErr, st |-> [dir |-> TRUE, ttl |-> ttl, nodes |-> NoNodes]]

\* etcdClient.UpdateDir(KEY_NODE_STATE, ttl): only an existing directory is updated
EtcdUpdateDir(st, ttl) ==
    IF st.dir
    THEN [err |-> NoErr, st |-> [st EXCEPT !.ttl = ttl]]
    ELSE [err |-> ErrKeyNotFound, st |-> st]

\* etcdClient.Set(key, "up", ttl) of a child key: etcd creates the missing
\* parent directory, without a TTL
EtcdSet(st, key, ttl) ==
    [err |-> NoErr,
     st  |-> [dir   |-> TRUE,
              ttl   |-> IF st.dir THEN st.ttl ELSE TTL_NONE,
              nodes |-> [k \in (DOMAIN st.nodes) \cup {key} |->
                            IF k = key THEN ttl ELSE st.nodes[k]]]]

\* the orders in which a set of keys can be listed
Orderings(S) ==
    {s \in [1 .. Cardinality(S) -> S] : \A x, y \in DOMAIN s : x # y => s[x] # s[y]}

\* a store call that did not reach any etcd machine
EtcdDownResponse == [err |-> ErrEtcdDown, hasNode |-> FALSE, Nodes |-> <<>>]

\* etcdClient.Get(KEY_NODE_STATE, false, false): the responses the store can
\* give; the children are not sorted, so every order is possible
EtcdGet(st) ==
    IF st.dir
    THEN {[err |-> NoErr, hasNode |-> TRUE, Nodes |-> o] : o \in Orderings(DOMAIN st.nodes)}
    ELSE {[err |-> ErrKeyNotFound, hasNode |-> FALSE, Nodes |-> <<>>]}

\* a TTL of ttl seconds runs out within the next secs seconds
Expires(ttl, secs) == ttl # TTL_NONE /\ ttl <= secs

\* secs seconds pass in the store: TTLs run down, what reaches zero is
\* removed, and a directory that expires takes its children with it
EtcdElapse(st, secs) ==
    IF st.dir /\ Expires(st.ttl, secs)
    THEN EmptyStore
    ELSE LET kept == {k \in DOMAIN st.nodes : ~Expires(st.nodes[k], secs)}
         IN  [dir   |-> st.dir,
              ttl   |-> IF st.ttl = TTL_NONE THEN st.ttl ELSE st.ttl - secs,
              nodes |-> [k \in kept |->
                            IF st.nodes[k] = TTL_NONE THEN st.nodes[k]
                            ELSE st.nodes[k] - secs]]

---------------------------------------------------------------------------
(* The cluster's administrative API.  A JSON value is [t, v]: its type and, *)
(* for a string, its text.  A missing map key reads as null.                *)

JNull == [t |-> "null", v |-> <<>>]
JNum == [t |-> "number", v |-> <<>>]
JStr(s) == [t |-> "string", v |-> s]

\* an element of the "nodes" list of /pools/default that is a JSON object
NodeEntry(hostname, status, otpNode) ==
    [t |-> "object", hostname |-> hostname, status |-> status, otpNode |-> otpNode]

\* an element that is no JSON object
NotAnObject == [t |-> "string", hostname |-> JNull, status |-> JNull, otpNode |-> JNull]

LOCAL_COUCHBASE_PORT == <<"8", "0", "9", "1">>

\* "<ip>:8091", the hostname the cluster reports for a node
HostnameOf(ip) == ip \o <<":">> \o LOCAL_COUCHBASE_PORT

\* "ns_1@<ip>", the otpNode the cluster reports for a node
OtpOf(ip) == <<"n", "s", "_", "1", "@">> \o ip

Healthy(ip) == NodeEntry(JStr(HostnameOf(ip)), JStr(<<"healthy">>), JStr(OtpOf(ip)))

Warmup(ip) == NodeEntry(JStr(HostnameOf(ip)), JStr(<<"warmup">>), JStr(OtpOf(ip)))

ErrConnRefused == <<"dial", "tcp:", "connection", "refused">>

\* the answers of GET /pools/default on the peer, as getJsonData hands them
\* over: [err, isList, nodes]
TopologyResponses(local, peer) ==
    << [err |-> NoErr, isList |-> TRUE, nodes |-> <<Healthy(peer)>>],
       [err |-> NoErr, isList |-> TRUE, nodes |-> <<Healthy(peer), Healthy(local)>>],
       [err |-> NoErr, isList |-> TRUE, nodes |-> <<Healthy(peer), Warmup(local)>>],
       [err |-> NoErr, isList |-> TRUE, nodes |-> <<Healthy(peer), NotAnObject>>],
       [err |-> NoErr, isList |-> TRUE,
        nodes |-> <<NodeEntry(JStr(HostnameOf(peer)), JStr(<<"healthy">>), JNull)>>],
       [err |-> NoErr, isList |-> TRUE,
        nodes |-> <<NodeEntry(JNull, JStr(<<"healthy">>), JStr(OtpOf(peer)))>>],
       [err |-> NoErr, isList |-> TRUE,
        nodes |-> <<Healthy(peer), NodeEntry(JStr(HostnameOf(local)), JNum, JStr(OtpOf(local)))>>],
       [err |-> NoErr, isList |-> TRUE, nodes |-> <<>>],
       [err |-> NoErr, isList |-> FALSE, nodes |-> <<>>],
       [err |-> ErrConnRefused, isList |-> FALSE, nodes |-> <<>>],
       [err |-> NoErr, isList |-> TRUE,
        nodes |-> <<Warmup(peer), Healthy(local), NotAnObject>>],
       [err |-> NoErr, isList |-> TRUE,
        nodes |-> <<Healthy(peer), Healthy(local \o <<"0">>)>>] >>

\* GetClusterNodes: the "nodes" field of the answer, which must be a list
GetClusterNodes(resp) ==
    IF resp.err # NoErr
    THEN [nodes |-> <<>>, err |-> resp.err]
    ELSE IF ~resp.isList
         THEN [nodes |-> <<>>, err |-> <<"Unexpected", "data", "type", "in", "nodes", "field">>]
         ELSE [nodes |-> resp.nodes, err |-> NoErr]

RECURSIVE InClusterFrom(_, _, _)
\* the loop of CheckIfInClusterAndHealthy from element k on
InClusterFrom(nodes, k, localIp) ==
    IF k > Len(nodes)
    THEN [ok |-> FALSE, err |-> NoErr]
    ELSE LET node == nodes[k]
         IN  IF node.t # "object"
             THEN [ok |-> FALSE, err |-> <<"Node", "had", "unexpected", "data", "type">>]
             ELSE IF node.hostname.t # "string"
             THEN [ok |-> FALSE, err |-> <<"No", "hostname", "string", "found">>]
             ELSE IF Contains(node.hostname.v, localIp)
             THEN IF node.status.t # "string"
                  THEN [ok |-> FALSE, err |-> <<"No", "status", "string", "found">>]
                  ELSE IF node.status.v = <<"healthy">>
                  THEN [ok |-> TRUE, err |-> NoErr]
                  ELSE InClusterFrom(nodes, k + 1, localIp)
             ELSE InClusterFrom(nodes, k + 1, localIp)

\* CheckIfInClusterAndHealthy for what GetClusterNodes returned
CheckIfInClusterAndHealthy(got, localIp) ==
    IF got.err # NoErr
    THEN [ok |-> FALSE, err |-> got.err]
    ELSE InClusterFrom(got.nodes, 1, localIp)

RECURSIVE AllHealthyFrom(_, _)
\* the loop of CheckNumNodesClusterHealthy from element k on
AllHealthyFrom(nodes, k) ==
    IF k > Len(nodes)
    THEN [ok |-> TRUE, err |-> NoErr]
    ELSE LET node == nodes[k]
         IN  IF node.t # "object"
             THEN [ok |-> FALSE, err |-> <<"Node", "had", "unexpected", "data", "type">>]
             ELSE IF node.status.t # "string"
             THEN [ok |-> FALSE, err |-> <<"No", "status", "string", "found">>]
             ELSE IF node.status.v # <<"healthy">>
             THEN [ok |-> FALSE, err |-> NoErr]
             ELSE AllHealthyFrom(nodes, k + 1)

\* a faulty variant: the entries are inspected before they are counted
CheckEntriesBeforeCount(numNodes, got) ==
    IF got.err # NoErr
    THEN [ok |-> FALSE, err |-> got.err]
    ELSE LET all == AllHealthyFrom(got.nodes, 1)
         IN  IF all.err # NoErr \/ ~all.ok THEN all
             ELSE IF numNodes # -1 /\ Len(got.nodes) < numNodes
                  THEN [ok |-> FALSE, err |-> NoErr]
                  ELSE all

\* CheckNumNodesClusterHealthy for what GetClusterNodes returned
CheckNumNodesClusterHealthy(numNodes, got) ==
    IF got.err # NoErr
    THEN [ok |-> FALSE, err |-> got.err]
    ELSE IF numNodes # -1 /\ Len(got.nodes) < numNodes
         THEN [ok |-> FALSE, err |-> NoErr]
         ELSE AllHealthyFrom(got.nodes, 1)

\* a faulty variant: a cluster needs at least one node
CheckAllNeedsANode(got) == CheckNumNodesClusterHealthy(1, got)

\* CheckAllNodesClusterHealthy for what GetClusterNodes returned
CheckAllNodesClusterHealthy(got) == CheckNumNodesClusterHealthy(-1, got)

RECURSIVE OtpFrom(_, _, _)
\* the loop of OtpNodeList from element k on, otpNodeList collected so far
OtpFrom(nodes, k, otpNodeList) ==
    IF k > Len(nodes)
    THEN [list |-> otpNodeList, err |-> NoErr]
    ELSE LET node == nodes[k]
         IN  IF node.t # "object"
             THEN [list |-> otpNodeList, err |-> <<"Node", "had", "unexpected", "data", "type">>]
             ELSE IF node.otpNode.t # "string"
             THEN [list |-> otpNodeList, err |-> <<"No", "otpNode", "string", "found">>]
             ELSE OtpFrom(nodes, k + 1, Append(otpNodeList, node.otpNode.v))

\* a faulty variant: the first node of the topology is left out
OtpNodeListWithoutFirst(got) ==
    IF got.err # NoErr
    THEN [list |-> <<>>, err |-> got.err]
    ELSE LET all == OtpFrom(got.nodes, 1, <<>>)
         IN  [list |-> IF all.list = <<>> THEN <<>> ELSE Tail(all.list), err |-> all.err]

\* OtpNodeList for what GetClusterNodes returned
OtpNodeList(got) ==
    IF got.err # NoErr
    THEN [list |-> <<>>, err |-> got.err]
    ELSE OtpFrom(got.nodes, 1, <<>>)

RECURSIVE StringsJoin(_, _)
\* strings.Join(list, sep)
StringsJoin(list, sep) ==
    IF Len(list) = 0 THEN <<>>
    ELSE IF Len(list) = 1 THEN list[1]
    ELSE list[1] \o sep \o StringsJoin(Tail(list), sep)

\* the answers of GET /pools/default/rebalanceProgress: [err, status]
RebalanceResponses ==
    << [err |-> NoErr, status |-> JStr(<<"none">>)],
       [err |-> NoErr, status |-> JStr(<<"running">>)],
       [err |-> NoErr, status |-> JStr(<<"None">>)],
       [err |-> NoErr, status |-> JNull],
       [err |-> ErrConnRefused, status |-> JNull] >>

\* a faulty variant: only the status "running" counts as a rebalance
IsRebalancingOnlyWhenRunning(resp) ==
    IF resp.err # NoErr
    THEN [rebalancing |-> TRUE, err |-> resp.err]
    ELSE IF resp.status.t # "string"
         THEN [rebalancing |-> TRUE,
               err |-> <<"Unexepected", "type", "in", "status", "field", "in", "json">>]
         ELSE [rebalancing |-> resp.status.v = <<"running">>, err |-> NoErr]

\* IsRebalancing for the answer of the rebalance-progress read
IsRebalancing(resp) ==
    IF resp.err # NoErr
    THEN [rebalancing |-> TRUE, err |-> resp.err]
    ELSE IF resp.status.t # "string"
         THEN [rebalancing |-> TRUE,
               err |-> <<"Unexepected", "type", "in", "status", "field", "in", "json">>]
         ELSE IF resp.status.v = <<"none">>
              THEN [rebalancing |-> FALSE, err |-> NoErr]
              ELSE [rebalancing |-> TRUE, err |-> NoErr]

\* the text of a status as the agent last read it
StatusText(resp) ==
    IF resp.err # NoErr THEN "unreadable"
    ELSE IF resp.status.t # "string" THEN "notastring"
    ELSE resp.status.v[1]

\* the answers of GET /pools: [err, implementationVersion]
PoolsResponses ==
    << [err |-> NoErr, implementationVersion |-> JStr(<<"3", ".", "0", ".", "1">>)],
       [err |-> NoErr, implementationVersion |-> JNull],
       [err |-> ErrConnRefused, implementationVersion |-> JNull] >>

\* an element of the bucket list: [t, name]
BucketEntry(name) == [t |-> "object", name |-> name]

\* the answers of GET /pools/default/buckets: [err, buckets]
BucketResponses ==
    << [err |-> NoErr, buckets |-> <<>>],
       [err |-> NoErr, buckets |-> <<BucketEntry(JStr(<<"default">>))>>],
       [err |-> NoErr, buckets |-> <<BucketEntry(JNum), BucketEntry(JStr(<<"beer-sample">>))>>],
       [err |-> ErrConnRefused, buckets |-> <<>>] >>

\* the answers of GET /pools/default/buckets of a server that has these buckets
BucketListings(list) ==
    {[err |-> NoErr, buckets |-> list], [err |-> ErrConnRefused, buckets |-> <<>>]}

\* the bucket lists a server may have when the node is started
BucketLists == {BucketResponses[b].buckets : b \in DOMAIN BucketResponses}

\* the buckets of a server after it accepted the creation of a bucket
BucketCreated(list, name) == Append(list, BucketEntry(JStr(name)))

\* a faulty variant: only the element at k is looked at
HasDefaultAtHead(list, k) ==
    /\ k <= Len(list)
    /\ list[k].t = "object"
    /\ list[k].name = JStr(<<"default">>)

RECURSIVE HasDefaultFrom(_, _)
\* the loop of HasDefaultBucket from element k on
HasDefaultFrom(buckets, k) ==
    IF k > Len(buckets) THEN FALSE
    ELSE IF buckets[k].t = "object" /\ buckets[k].name.t = "string"
            /\ buckets[k].name.v = <<"default">>
         THEN TRUE
         ELSE HasDefaultFrom(buckets, k + 1)

\* HasDefaultBucket for the answer of the bucket listing
HasDefaultBucket(resp) ==
    IF resp.err # NoErr
    THEN [has |-> FALSE, err |-> resp.err]
    ELSE [has |-> HasDefaultFrom(resp.buckets, 1), err |-> NoErr]

DecimalDigits == <<"0", "1", "2", "3", "4", "5", "6", "7", "8", "9">>

RECURSIVE Decimal(_)
\* fmt.Sprintf("%v", n) for an int n >= 0
Decimal(n) ==
    IF n < 10 THEN <<DecimalDigits[n + 1]>>
    ELSE Decimal(n \div 10) \o <<DecimalDigits[(n % 10) + 1]>>

\* the answers to a POST: whether the request got an answer, the status
\* code and the body
PostResponses ==
    << [sent |-> TRUE, status |-> 200, body |-> <<>>],
       [sent |-> TRUE, status |-> 400, body |-> <<"Unexpected", "server", "error">>],
       [sent |-> TRUE, status |-> 400,
        body |-> <<"Prepare", "join", "failed.", "Node", "is", "already", "part", "of",
                   "cluster", ".">>],
       [sent |-> FALSE, status |-> 0, body |-> <<>>] >>

\* the error POST returns for an answer
PostError(path, resp) ==
    IF ~resp.sent
    THEN ErrConnRefused
    ELSE IF resp.status < 200 \/ resp.status > 299
         THEN <<"Failed", "to", "POST", "to", path, "Status", "code:">>
              \o Decimal(resp.status) \o <<"Body:">> \o resp.body
         ELSE NoErr

COUCHBASE_DEFAULT_ADMIN_USERNAME == <<"admin">>
COUCHBASE_DEFAULT_ADMIN_PASSWORD == <<"password">>

\* the request getJsonData sends: always with the configured identity
GetRequest(c, host, path) ==
    [host |-> host, path |-> path, user |-> c.AdminUsername, password |-> c.AdminPassword]

\* a faulty variant: every POST is sent with the factory-default identity
PostAlwaysDefault(c, defaultAdminCreds, host, path, data) ==
    [host |-> host, path |-> path,
     user |-> COUCHBASE_DEFAULT_ADMIN_USERNAME,
     password |-> COUCHBASE_DEFAULT_ADMIN_PASSWORD,
     data |-> data]

\* the request POST sends: the basic-auth identity depends on defaultAdminCreds
PostRequest(c, defaultAdminCreds, host, path, data) ==
    [host |-> host, path |-> path,
     user |-> IF defaultAdminCreds THEN COUCHBASE_DEFAULT_ADMIN_USERNAME ELSE c.AdminUsername,
     password |-> IF defaultAdminCreds THEN COUCHBASE_DEFAULT_ADMIN_PASSWORD
                  ELSE c.AdminPassword,
     data |-> data]

\* what reading the host's memory gives: [err, totalRamMb]
MemoryReadings ==
    << [err |-> NoErr, totalRamMb |-> 4000],
       [err |-> NoErr, totalRamMb |-> 3768],
       [err |-> NoErr, totalRamMb |-> 7987],
       [err |-> NoErr, totalRamMb |-> 1],
       [err |-> <<"exit", "status", "1">>, totalRamMb |-> -1] >>

\* a faulty variant: the division comes before the multiplication
CalculateClusterRamDivideFirst(mem) ==
    IF mem.err # NoErr
    THEN [ramMb |-> <<>>, err |-> mem.err]
    ELSE [ramMb |-> Decimal((mem.totalRamMb \div 100) * 75), err |-> NoErr]

\* CalculateClusterRam for what CalculateTotalRam returned
CalculateClusterRam(mem) ==
    IF mem.err # NoErr
    THEN [ramMb |-> <<>>, err |-> mem.err]
    ELSE [ramMb |-> Decimal((mem.totalRamMb * 75) \div 100), err |-> NoErr]

\* a faulty variant: the harmless error is not absorbed
AddNodeStrict(err) == err

\* AddNode: the error it returns for the error of its POST
AddNode(err) ==
    IF err # NoErr
    THEN IF Contains(err, <<"Node", "is", "already", "part", "of", "cluster">>)
         THEN NoErr
         ELSE err
    ELSE NoErr

\* a faulty variant: the whole key of the first child is returned
FindLiveNodeWholeKey(resp) ==
    IF resp.err # NoErr
    THEN [ip |-> <<>>, err |-> <<"Error", "getting", "key.", "Err:">> \o resp.err]
    ELSE IF ~resp.hasNode \/ Len(resp.Nodes) = 0
         THEN [ip |-> <<>>, err |-> NoErr]
         ELSE [ip |-> resp.Nodes[1], err |-> NoErr]

\* FindLiveNode for the response of etcdClient.Get
FindLiveNode(resp) ==
    IF resp.err # NoErr
    THEN [ip |-> <<>>, err |-> <<"Error", "getting", "key.", "Err:">> \o resp.err]
    ELSE IF ~resp.hasNode
         THEN [ip |-> <<>>, err |-> NoErr]
         ELSE IF Len(resp.Nodes) = 0
              THEN [ip |-> <<>>, err |-> NoErr]
              ELSE [ip |-> PathSplitFile(resp.Nodes[1]), err |-> NoErr]

---------------------------------------------------------------------------
(* Agents *)

\* the places of EventLoop
HbPcs == {"EventLoop", "PublishNodeStateEtcd", "Sleep"}

DEFAULT_BUCKET_RAM_MB == <<"1", "2", "8">>
DEFAULT_BUCKET_REPLICA_NUMBER == <<"1">>

\* the CouchbaseCluster struct as the caller of StartCouchbaseNode hands it over
InitCb(ip) ==
    [LocalCouchbaseIp           |-> ip,
     LocalCouchbasePort         |-> <<>>,
     LocalCouchbaseVersion      |-> <<>>,
     AdminUsername              |-> <<"Administrator">>,
     AdminPassword              |-> <<"s3cret">>,
     defaultBucketRamQuotaMB    |-> <<>>,
     defaultBucketReplicaNumber |-> <<>>]

\* the local variables of StartCouchbaseNode and of the function it is in
InitLoc ==
    [success |-> FALSE, i |-> 0, sleepSeconds |-> 0, liveNodeIp |-> <<>>,
     inCluster |-> FALSE, lastErr |-> NoErr]

\* no FindLiveNode call has just been made
NoFind == [made |-> FALSE, reached |-> FALSE, dir |-> FALSE, children |-> {},
           ip |-> <<>>, err |-> NoErr]

\* no AddNode call has just been made
NoAddNode == [made |-> FALSE, postErr |-> NoErr, ret |-> NoErr]

\* no membership check has just been made
NoMember == [made |-> FALSE, nodes |-> <<>>, ok |-> FALSE, err |-> NoErr]

\* no bucket listing has just been read
NoListing == [made |-> FALSE, err |-> NoErr, buckets |-> <<>>, posted |-> FALSE]

\* IsRebalancing has not been called
NoRebalanceRead == [made |-> FALSE, resp |-> [err |-> NoErr, status |-> JNull],
                    rebalancing |-> FALSE, err |-> NoErr]

\* no topology has just been read for a rebalance
NoTopology == [made |-> FALSE, nodes |-> <<>>]

\* no host memory has just been read
NoMemory == [made |-> FALSE, err |-> NoErr, totalRamMb |-> 0]

\* no election has just been held
NoElection == [resp |-> "none", isFirst |-> FALSE, err |-> NoErr, steadyPeer |-> FALSE]

InitHist ==
    [election   |-> NoElection, \* the BecomeFirstClusterNode call just made, until the next step
     calls      |-> <<>>,     \* the functions entered, in order
     posts      |-> <<>>,     \* the POST requests issued, in order
     gets       |-> {},       \* the GET requests issued
     memory     |-> NoMemory, \* what SetClusterRam has just read of the host's memory
     raised     |-> NoErr,    \* the fatal error a step reported, if any
     find       |-> NoFind,   \* the FindLiveNode call just made, until JoinLiveNode has checked
     finds      |-> 0,        \* FindLiveNode calls of JoinExistingCluster, until JoinLiveNode has checked
     slept      |-> 0,        \* the seconds of the last sleep of the running retry loop
     added      |-> "untried", \* the last AddNode call: untried, ok, failed
     addNode    |-> NoAddNode, \* the AddNode call just made: the error of its POST and its own
     status     |-> "unread", \* the last rebalance status read from the peer
     topology   |-> NoTopology, \* what TriggerRebalance has just read, until EventLoop starts
     member     |-> NoMember,  \* the membership check JoinLiveNode has just made
     listing    |-> NoListing, \* the bucket listing CreateDefaultBucket has just read
     rebalance  |-> NoRebalanceRead, \* the last call of IsRebalancing and what it returned
     hb         |-> "none",   \* EventLoop writes so far: none, ok, failed
     followed   |-> TRUE]     \* whether the requests and answers of lines 86-112 are recorded

\* the observations of an agent whose requests and answers are not recorded
Unfollowed == [InitHist EXCEPT !.followed = FALSE]

\* what is recorded of the observations h of agent a: of an agent that is
\* not followed only the election and the heartbeat
Kept(a, h) ==
    IF hist[a].followed THEN h
    ELSE [hist[a] EXCEPT !.election = h.election, !.hb = h.hb]

\* StartCouchbaseNode returns err
Return(a, err) ==
    /\ pc' = [pc EXCEPT ![a] = "returned"]
    /\ retErr' = [retErr EXCEPT ![a] = err]

Goto(a, place) ==
    /\ pc' = [pc EXCEPT ![a] = place]
    /\ UNCHANGED retErr

Running(a, place) == pc[a] = place

\* the key of agent a's own entry under the membership directory
OwnKey(a) == PathJoin(KEY_NODE_STATE, cb[a].LocalCouchbaseIp)

\* an agent in EventLoop all of whose store writes have succeeded so far,
\* none of them a tick late
Steady(a) == pc[a] \in HbPcs /\ hist[a].hb = "ok"

---------------------------------------------------------------------------
(* StartCouchbaseNode, lines 71-84 *)

StartCouchbaseNode(a) ==
    /\ Running(a, "StartCouchbaseNode")
    /\ IF cb[a].LocalCouchbaseIp = <<>>
       THEN /\ Return(a, <<"You", "must", "define", "LocalCouchbaseIp", "before", "calling">>)
            /\ UNCHANGED <<hist, cb>>
       ELSE /\ Goto(a, "BecomeFirstClusterNode")
            /\ hist' = [hist EXCEPT ![a] =
                   Kept(a, [hist[a] EXCEPT !.calls = Append(@, "BecomeFirstClusterNode")])]
            /\ cb' = [cb EXCEPT
                   ![a].LocalCouchbasePort = LOCAL_COUCHBASE_PORT,
                   ![a].defaultBucketRamQuotaMB = DEFAULT_BUCKET_RAM_MB,
                   ![a].defaultBucketReplicaNumber = DEFAULT_BUCKET_REPLICA_NUMBER]
    /\ UNCHANGED <<etcd, winners, dirCreatedBy, sleepLeft, serverBuckets, loc, rl>>

\* a faulty variant: an existing directory is taken for a won election
BecomeFirstMistaken(err) ==
    IF err = NoErr \/ Contains(err, <<"Key", "already", "exists">>)
    THEN [isFirst |-> TRUE, err |-> NoErr]
    ELSE [isFirst |-> FALSE, err |-> err]

\* what BecomeFirstClusterNode returns for the error of CreateDir
BecomeFirstResult(err) ==
    IF err # NoErr
    THEN IF Contains(err, <<"Key", "already", "exists">>)
         THEN [isFirst |-> FALSE, err |-> NoErr]
         ELSE [isFirst |-> FALSE, err |-> err]
    ELSE [isFirst |-> TRUE, err |-> NoErr]

BecomeFirstClusterNode(a) ==
    /\ Running(a, "BecomeFirstClusterNode")
    /\ \E reached \in BOOLEAN :
         LET r   == IF reached THEN EtcdCreateDir(etcd, TTL_NONE)
                               ELSE [err |-> ErrEtcdDown, st |-> etcd]
             out == BecomeFirstResult(r.err)
         IN  /\ etcd' = r.st
             /\ winners' = IF out.isFirst THEN winners \cup {a} ELSE winners
             /\ dirCreatedBy' = IF r.err = NoErr THEN "election" ELSE dirCreatedBy
             /\ loc' = [loc EXCEPT ![a].success = out.isFirst]
             /\ hist' = [hist EXCEPT ![a] = Kept(a, [hist[a] EXCEPT
                    !.election =
                        [resp       |-> IF ~reached THEN "failed"
                                        ELSE IF r.err = NoErr THEN "created" ELSE "exists",
                         isFirst    |-> out.isFirst,
                         err        |-> out.err,
                         steadyPeer |-> \E b \in Agents \ {a} : Steady(b)],
                    !.raised = out.err,
                    !.calls = IF out.err = NoErr
                              THEN Append(@, "PrepareVarDirectory") ELSE @])]
             /\ IF out.err # NoErr
                THEN Return(a, out.err)
                ELSE Goto(a, "PrepareVarDirectory")
    /\ UNCHANGED <<sleepLeft, cb, serverBuckets, rl>>

---------------------------------------------------------------------------
(* EventLoop *)

\* a faulty variant: the loop sleeps as long as the directory lives
SleepWholeTtl == ttlSeconds

\* EventLoop: time.Second * time.Duration(ttlSeconds/2)
EventLoopSleepSeconds == ttlSeconds \div 2

\* the locals of an agent in EventLoop: lastErr, and what the functions of
\* lines 86-112 left.  Those have returned and nothing reads what they left:
\* it is kept for an agent that is followed only.
LoopLocals(a, l) ==
    IF hist[a].followed THEN l ELSE [InitLoc EXCEPT !.lastErr = l.lastErr]

\* the top of the loop: UpdateDir(KEY_NODE_STATE, ttlSeconds); an error is logged
EventLoop(a) ==
    /\ Running(a, "EventLoop")
    /\ \E reached \in BOOLEAN :
         LET r == IF reached THEN EtcdUpdateDir(etcd, ttlSeconds)
                             ELSE [err |-> ErrEtcdDown, st |-> etcd]
         IN  /\ etcd' = r.st
             /\ hist' = [hist EXCEPT
                    ![a].hb = IF r.err # NoErr THEN "failed"
                              ELSE IF @ = "none" THEN "ok" ELSE @,
                    ![a].topology = NoTopology,
                    ![a].listing = NoListing]
    /\ loc' = [loc EXCEPT ![a] = LoopLocals(a, @)]
    /\ Goto(a, "PublishNodeStateEtcd")
    /\ UNCHANGED <<winners, dirCreatedBy, sleepLeft, cb, serverBuckets, rl>>

\* a faulty variant: a failed publish ends the loop
ExitOnPublishError(err) == IF err # NoErr THEN "returned" ELSE "Sleep"

\* EventLoop: whatever PublishNodeStateEtcd returned, the loop goes on to its sleep
AfterPublish(err) == "Sleep"

\* PublishNodeStateEtcd(ttlSeconds) and the start of the sleep; an error is
\* logged and kept in lastErr
PublishNodeStateEtcd(a) ==
    /\ Running(a, "PublishNodeStateEtcd")
    /\ \E reached \in BOOLEAN :
         LET key == PathJoin(KEY_NODE_STATE, cb[a].LocalCouchbaseIp)
             r   == IF reached THEN EtcdSet(etcd, key, ttlSeconds)
                               ELSE [err |-> ErrEtcdDown, st |-> etcd]
         IN  /\ etcd' = r.st
             /\ dirCreatedBy' = IF ~etcd.dir /\ r.st.dir THEN "heartbeat" ELSE dirCreatedBy
             /\ hist' = [hist EXCEPT ![a].hb = IF r.err # NoErr THEN "failed" ELSE @]
             /\ loc' = [loc EXCEPT ![a] = LoopLocals(a, [@ EXCEPT !.lastErr = r.err])]
             /\ Goto(a, AfterPublish(r.err))
    /\ sleepLeft' = [sleepLeft EXCEPT ![a] = EventLoopSleepSeconds]
    /\ UNCHANGED <<winners, cb, serverBuckets, rl>>

---------------------------------------------------------------------------
(* StartCouchbaseNode, lines 86-112: the steps between the election and    *)
(* EventLoop.  A retry loop is one action per iteration.                   *)

\* A step of StartCouchbaseNode ends: with an error StartCouchbaseNode
\* returns it and the loop variables of the function that failed are gone,
\* without one the run goes on at place; l and h are the agent's locals and
\* observations after the step.
Step(a, place, err, l, h) ==
    IF err # NoErr
    THEN /\ Return(a, err)
         /\ loc' = [loc EXCEPT ![a] = [l EXCEPT !.i = 0, !.sleepSeconds = 0]]
         /\ hist' = [hist EXCEPT ![a] = Kept(a, [h EXCEPT !.raised = err])]
    ELSE /\ Goto(a, place)
         /\ loc' = [loc EXCEPT ![a] = l]
         /\ hist' = [hist EXCEPT ![a] =
                Kept(a, IF place # pc[a] THEN [h EXCEPT !.calls = Append(@, place)] ELSE h)]

ErrExit == <<"exit", "status", "1">>

\* a faulty variant: the loops make one iteration more
LoopEndsLate(i, max) == i = max + 1

\* for i := 0; i < max; i++: the loop ends when the incremented i is max
LoopEnds(i, max) == i = max

PrepareVarDirectory(a) ==
    /\ Running(a, "PrepareVarDirectory")
    /\ \E ok \in BOOLEAN :
         Step(a, "StartCouchbaseService", IF ok THEN NoErr ELSE ErrExit,
              [loc[a] EXCEPT !.i = 0], [hist[a] EXCEPT !.election = NoElection])
    /\ UNCHANGED <<etcd, winners, dirCreatedBy, sleepLeft, cb, serverBuckets, rl>>

\* one iteration: "failed" is an error of cmd.Run, otherwise the service
\* runs or does not run yet
StartCouchbaseService(a) ==
    /\ Running(a, "StartCouchbaseService")
    /\ \E o \in {"failed", "running", "stopped"} :
         LET n == loc[a].i + 1
         IN  Step(a,
                  IF o = "running" THEN "FetchClusterDetails" ELSE "StartCouchbaseService",
                  IF o = "failed" THEN ErrExit
                  ELSE IF o = "stopped" /\ LoopEnds(n, MAX_RETRIES_START_COUCHBASE)
                       THEN <<"Unable", "to", "start", "couchbase", "service", "after",
                              "several", "retries">>
                       ELSE NoErr,
                  [loc[a] EXCEPT !.i = IF o = "running" THEN 0 ELSE n],
                  hist[a])
    /\ UNCHANGED <<etcd, winners, dirCreatedBy, sleepLeft, cb, serverBuckets, rl>>

\* a faulty variant: the branches of the switch are exchanged
BranchSwapped(success) == IF success THEN "JoinExistingCluster" ELSE "ClusterInit"

\* StartCouchbaseNode: switch success
BranchOnSuccess(success) == IF success THEN "ClusterInit" ELSE "JoinExistingCluster"

\* one iteration: a failed read is retried after a sleep
FetchClusterDetails(a) ==
    /\ Running(a, "FetchClusterDetails")
    /\ \E k \in DOMAIN PoolsResponses :
         LET resp == PoolsResponses[k]
             n    == loc[a].i + 1
             read == resp.err = NoErr /\ resp.implementationVersion.t = "string"
         IN  /\ cb' = [cb EXCEPT ![a].LocalCouchbaseVersion =
                          IF read THEN resp.implementationVersion.v ELSE @]
             /\ Step(a,
                     IF resp.err # NoErr THEN "FetchClusterDetails"
                     ELSE BranchOnSuccess(loc[a].success),
                     IF resp.err # NoErr
                     THEN IF LoopEnds(n, MAX_RETRIES_JOIN_CLUSTER)
                          THEN <<"Unable", "to", "fetch", "cluster", "details", "after",
                                 "several", "attempts">>
                          ELSE NoErr
                     ELSE IF ~read
                          THEN <<"Expected", "implementationVersion", "to", "contain",
                                 "a", "string">>
                          ELSE NoErr,
                     [loc[a] EXCEPT !.i = IF resp.err # NoErr THEN n ELSE 0,
                                    !.sleepSeconds = 0],
                     [hist[a] EXCEPT !.gets =
                         @ \cup {GetRequest(cb[a], cb[a].LocalCouchbaseIp, "/pools")}])
    /\ UNCHANGED <<etcd, winners, dirCreatedBy, sleepLeft, serverBuckets, rl>>

\* ClusterInit up to its call of SetClusterRam
ClusterInit(a) ==
    /\ Running(a, "ClusterInit")
    /\ \E k \in DOMAIN PostResponses :
         LET req == PostRequest(cb[a], TRUE, cb[a].LocalCouchbaseIp, "/settings/web",
                        << <<"password", cb[a].AdminPassword>>,
                           <<"port", cb[a].LocalCouchbasePort>>,
                           <<"username", cb[a].AdminUsername>> >>)
         IN  Step(a, "SetClusterRam", PostError("/settings/web", PostResponses[k]),
                  loc[a], [hist[a] EXCEPT !.posts = Append(@, req)])
    /\ UNCHANGED <<etcd, winners, dirCreatedBy, sleepLeft, cb, serverBuckets, rl>>

DefaultClusterRamMb == <<"1", "0", "2", "4">>

SetClusterRam(a) ==
    /\ Running(a, "SetClusterRam")
    /\ \E m \in DOMAIN MemoryReadings, k \in DOMAIN PostResponses :
         LET calc  == CalculateClusterRam(MemoryReadings[m])
             ramMb == IF calc.err # NoErr THEN DefaultClusterRamMb ELSE calc.ramMb
             req   == PostRequest(cb[a], FALSE, cb[a].LocalCouchbaseIp, "/pools/default",
                          << <<"memoryQuota", ramMb>> >>)
         IN  Step(a, "CreateDefaultBucket", PostError("/pools/default", PostResponses[k]),
                  loc[a],
                  [hist[a] EXCEPT
                      !.posts = Append(@, req),
                      !.memory = [made |-> TRUE, err |-> MemoryReadings[m].err,
                                  totalRamMb |-> MemoryReadings[m].totalRamMb]])
    /\ UNCHANGED <<etcd, winners, dirCreatedBy, sleepLeft, cb, serverBuckets, rl>>

CreateDefaultBucket(a) ==
    /\ Running(a, "CreateDefaultBucket")
    /\ \E listing \in BucketListings(serverBuckets[a]), k \in DOMAIN PostResponses :
         LET has == HasDefaultBucket(listing)
             req == PostRequest(cb[a], FALSE, cb[a].LocalCouchbaseIp, "/pools/default/buckets",
                        << <<"authType", <<"none">> >>,
                           <<"name", <<"default">> >>,
                           <<"proxyPort", <<"1", "1", "2", "1", "5">> >>,
                           <<"ramQuotaMB", cb[a].defaultBucketRamQuotaMB>>,
                           <<"replicaNumber", cb[a].defaultBucketReplicaNumber>> >>)
             posted == has.err = NoErr /\ ~has.has
             postErr == PostError("/pools/default/buckets", PostResponses[k])
             asked  == [hist[a] EXCEPT
                           !.memory = NoMemory,
                           !.listing = [made |-> TRUE, err |-> listing.err,
                                        buckets |-> listing.buckets, posted |-> posted],
                           !.gets = @ \cup {GetRequest(cb[a], cb[a].LocalCouchbaseIp,
                                                        "/pools/default/buckets")}]
         IN  /\ Step(a, "EventLoop",
                     IF has.err # NoErr THEN has.err
                     ELSE IF has.has THEN NoErr
                     ELSE postErr,
                     loc[a],
                     IF posted THEN [asked EXCEPT !.posts = Append(@, req)] ELSE asked)
             /\ serverBuckets' = IF posted /\ postErr = NoErr
                                 THEN [serverBuckets EXCEPT
                                          ![a] = BucketCreated(@, <<"default">>)]
                                 ELSE serverBuckets
    /\ UNCHANGED <<etcd, winners, dirCreatedBy, sleepLeft, cb, rl>>

---------------------------------------------------------------------------
(* JoinExistingCluster and JoinLiveNode *)

\* a faulty variant: every sleep is 10 seconds
JoinBackoffFlat(sleepSeconds) == 10

\* a faulty variant: the sleep doubles with every attempt
JoinBackoffDoubling(sleepSeconds) == IF sleepSeconds = 0 THEN 10 ELSE 2 * sleepSeconds

\* JoinExistingCluster: sleepSeconds += 10
JoinBackoff(sleepSeconds) == sleepSeconds + 10

\* one iteration: FindLiveNode, then JoinLiveNode or a sleep
JoinExistingCluster(a) ==
    /\ Running(a, "JoinExistingCluster")
    /\ \E resp \in EtcdGet(etcd) \cup {EtcdDownResponse} :
         LET out   == FindLiveNode(resp)
             found == out.ip # <<>>
             n     == loc[a].i + 1
             secs  == JoinBackoff(loc[a].sleepSeconds)
         IN  Step(a,
                  IF found THEN "JoinLiveNode" ELSE "JoinExistingCluster",
                  IF ~found /\ LoopEnds(n, MAX_RETRIES_JOIN_CLUSTER)
                  THEN <<"Failed", "to", "join", "cluster", "after", "several", "retries">>
                  ELSE NoErr,
                  IF found THEN [loc[a] EXCEPT !.liveNodeIp = out.ip]
                  ELSE [loc[a] EXCEPT !.i = n, !.sleepSeconds = secs],
                  [hist[a] EXCEPT
                      !.find = [made |-> TRUE, reached |-> resp.err # ErrEtcdDown,
                                dir |-> etcd.dir, children |-> DOMAIN etcd.nodes,
                                ip |-> out.ip, err |-> out.err],
                      !.finds = @ + 1,
                      !.slept = IF found THEN @ ELSE secs])
    /\ UNCHANGED <<etcd, winners, dirCreatedBy, sleepLeft, cb, serverBuckets, rl>>

\* JoinLiveNode up to its call of AddNodeRetry: the membership check
JoinLiveNode(a) ==
    /\ Running(a, "JoinLiveNode")
    /\ \E k \in DOMAIN TopologyResponses(cb[a].LocalCouchbaseIp, loc[a].liveNodeIp) :
         LET resp == TopologyResponses(cb[a].LocalCouchbaseIp, loc[a].liveNodeIp)[k]
             chk  == CheckIfInClusterAndHealthy(GetClusterNodes(resp), cb[a].LocalCouchbaseIp)
         IN  Step(a,
                  IF chk.ok THEN "WaitUntilNoRebalanceRunning" ELSE "AddNodeRetry",
                  chk.err,
                  [loc[a] EXCEPT !.inCluster = chk.ok, !.i = 0, !.sleepSeconds = 0],
                  [hist[a] EXCEPT
                      !.find = NoFind, !.finds = 0, !.slept = 0,
                      !.member = [made |-> TRUE, nodes |-> GetClusterNodes(resp).nodes,
                                  ok |-> chk.ok, err |-> chk.err],
                      !.gets = @ \cup {GetRequest(cb[a], loc[a].liveNodeIp, "/pools/default")}])
    /\ UNCHANGED <<etcd, winners, dirCreatedBy, sleepLeft, cb, serverBuckets, rl>>

\* one iteration: AddNode, then the wait for the rebalance or a sleep
AddNodeRetry(a) ==
    /\ Running(a, "AddNodeRetry")
    /\ \E k \in DOMAIN PostResponses :
         LET secs == loc[a].sleepSeconds + 10
             n    == loc[a].i + 1
             req  == PostRequest(cb[a], FALSE, loc[a].liveNodeIp, "/controller/addNode",
                         << <<"hostname", cb[a].LocalCouchbaseIp>>,
                            <<"password", cb[a].AdminPassword>>,
                            <<"user", cb[a].AdminUsername>> >>)
             perr == PostError("/controller/addNode", PostResponses[k])
             err  == AddNode(perr)
         IN  Step(a,
                  IF err = NoErr THEN "WaitUntilNoRebalanceRunning" ELSE "AddNodeRetry",
                  IF err # NoErr /\ LoopEnds(n, MAX_RETRIES_JOIN_CLUSTER)
                  THEN <<"Unable", "to", "AddNode", "after", "several", "attempts">>
                  ELSE NoErr,
                  IF err = NoErr THEN [loc[a] EXCEPT !.i = 0, !.sleepSeconds = 0]
                  ELSE [loc[a] EXCEPT !.i = n, !.sleepSeconds = secs],
                  [hist[a] EXCEPT !.posts = Append(@, req),
                                  !.member = NoMember,
                                  !.added = IF err = NoErr THEN "ok" ELSE "failed",
                                  !.addNode = [made |-> TRUE, postErr |-> perr, ret |-> err],
                                  !.slept = IF err = NoErr THEN 0 ELSE secs])
    /\ UNCHANGED <<etcd, winners, dirCreatedBy, sleepLeft, cb, serverBuckets, rl>>

\* a faulty variant: the rebalance is triggered while one is running
RebalanceWaitSwapped(isRebalancing) ==
    IF isRebalancing THEN "TriggerRebalance" ELSE "WaitUntilNoRebalanceRunning"

\* WaitUntilNoRebalanceRunning: switch isRebalancing
RebalanceWaitNext(isRebalancing) ==
    IF isRebalancing THEN "WaitUntilNoRebalanceRunning" ELSE "TriggerRebalance"

\* one iteration: IsRebalancing, then the rebalance or a sleep
WaitUntilNoRebalanceRunning(a) ==
    /\ Running(a, "WaitUntilNoRebalanceRunning")
    /\ \E k \in DOMAIN RebalanceResponses :
         LET secs == loc[a].sleepSeconds + 100
             n    == loc[a].i + 1
             r    == IsRebalancing(RebalanceResponses[k])
             next == RebalanceWaitNext(r.rebalancing)
         IN  Step(a, next,
                  IF r.err # NoErr THEN r.err
                  ELSE IF next = "WaitUntilNoRebalanceRunning" /\ LoopEnds(n, MAX_RETRIES_JOIN_CLUSTER)
                       THEN <<"Unable", "to", "rebalance", "after", "several", "attempts">>
                       ELSE NoErr,
                  IF r.err = NoErr /\ next = "WaitUntilNoRebalanceRunning"
                  THEN [loc[a] EXCEPT !.i = n, !.sleepSeconds = secs]
                  ELSE [loc[a] EXCEPT !.i = 0, !.sleepSeconds = 0],
                  [hist[a] EXCEPT
                      !.status = StatusText(RebalanceResponses[k]),
                      !.rebalance = [made |-> TRUE, resp |-> RebalanceResponses[k],
                                     rebalancing |-> r.rebalancing, err |-> r.err],
                      !.addNode = NoAddNode,
                      !.member = NoMember,
                      !.gets = @ \cup {GetRequest(cb[a], loc[a].liveNodeIp,
                                                   "/pools/default/rebalanceProgress")},
                      !.slept = IF r.err = NoErr /\ next = "WaitUntilNoRebalanceRunning"
                                THEN secs ELSE 0])
    /\ UNCHANGED <<etcd, winners, dirCreatedBy, sleepLeft, cb, serverBuckets, rl>>

\* TriggerRebalance; JoinLiveNode and JoinExistingCluster return what it returns.
\* An error of OtpNodeList makes it return nil.
TriggerRebalance(a) ==
    /\ Running(a, "TriggerRebalance")
    /\ \E k \in DOMAIN TopologyResponses(cb[a].LocalCouchbaseIp, loc[a].liveNodeIp) :
         LET resp == TopologyResponses(cb[a].LocalCouchbaseIp, loc[a].liveNodeIp)[k]
             otp  == OtpNodeList(GetClusterNodes(resp))
             asked == GetRequest(cb[a], loc[a].liveNodeIp, "/pools/default")
             req  == PostRequest(cb[a], FALSE, loc[a].liveNodeIp, "/controller/rebalance",
                         << <<"ejectedNodes", <<>> >>,
                            <<"knownNodes", StringsJoin(otp.list, <<",">>)>> >>)
         IN  IF otp.err # NoErr
             THEN /\ Goto(a, "EventLoop")
                  /\ hist' = [hist EXCEPT ![a] =
                         Kept(a, [hist[a] EXCEPT !.raised = otp.err,
                                                 !.calls = Append(@, "EventLoop"),
                                                 !.gets = @ \cup {asked}])]
                  /\ UNCHANGED loc
             ELSE \E p \in DOMAIN PostResponses :
                    Step(a, "EventLoop", PostError("/controller/rebalance", PostResponses[p]),
                         loc[a], [hist[a] EXCEPT
                                     !.posts = Append(@, req),
                                     !.gets = @ \cup {asked},
                                     !.topology = [made |-> TRUE, nodes |-> resp.nodes]])
    /\ UNCHANGED <<etcd, winners, dirCreatedBy, sleepLeft, cb, serverBuckets, rl>>

---------------------------------------------------------------------------
(* Time and the life of a process *)

\* the seconds one Tick stands for: the period of EventLoop, the shortest
\* duration of the protocol
TickSeconds == ttlSeconds \div 2

\* TickSeconds pass, whatever the agents are doing.  An agent whose sleep
\* is over (<-time.After returns) is back at the top of the loop.  An agent
\* of EventLoop that is not in its sleep is at a store call of the loop: its
\* writes do not come on every tick any more, which hb records as "late".
Tick ==
    /\ sleepLeft' = [a \in Agents |->
                        IF pc[a] = "Sleep" /\ sleepLeft[a] > TickSeconds
                        THEN sleepLeft[a] - TickSeconds ELSE 0]
    /\ pc' = [a \in Agents |->
                 IF pc[a] = "Sleep" /\ sleepLeft[a] <= TickSeconds
                 THEN "EventLoop" ELSE pc[a]]
    /\ etcd' = EtcdElapse(etcd, TickSeconds)
    /\ winners' = IF EtcdElapse(etcd, TickSeconds).dir THEN winners ELSE {}
    /\ dirCreatedBy' = IF EtcdElapse(etcd, TickSeconds).dir THEN dirCreatedBy ELSE "none"
    /\ hist' = [a \in Agents |->
                  IF pc[a] \in HbPcs \ {"Sleep"} /\ hist[a].hb = "ok"
                  THEN [hist[a] EXCEPT !.hb = "late"] ELSE hist[a]]
    /\ UNCHANGED <<cb, serverBuckets, loc, retErr, rl>>

\* a step of action A taken while every agent that is in EventLoop sleeps.
\* Punctual(Tick) is time in a run whose heartbeating agents keep their
\* period: the calls of lines 936-961 take no time to speak of
Punctual(A) == (\A a \in Agents : pc[a] \in HbPcs => pc[a] = "Sleep") /\ A

ResetAgent(a, place) ==
    /\ pc' = [pc EXCEPT ![a] = place]
    /\ sleepLeft' = [sleepLeft EXCEPT ![a] = 0]
    /\ loc' = [loc EXCEPT ![a] = InitLoc]
    /\ hist' = [hist EXCEPT ![a] = [InitHist EXCEPT !.followed = hist[a].followed]]
    /\ retErr' = [retErr EXCEPT ![a] = NoErr]

\* the process dies: the agent goes silent and what it held in memory is lost
Crash(a) ==
    /\ pc[a] \notin {"crashed", "returned"}
    /\ ResetAgent(a, "crashed")
    /\ cb' = [cb EXCEPT ![a] = InitCb(cb[a].LocalCouchbaseIp)]
    /\ UNCHANGED <<etcd, winners, dirCreatedBy, serverBuckets, rl>>

\* a process that died or returned is started again
Restart(a) ==
    /\ pc[a] \in {"crashed", "returned"}
    /\ ResetAgent(a, "StartCouchbaseNode")
    /\ cb' = [cb EXCEPT ![a] = InitCb(cb[a].LocalCouchbaseIp)]
    /\ UNCHANGED <<etcd, winners, dirCreatedBy, serverBuckets, rl>>

---------------------------------------------------------------------------
(* RetryLoop(worker, sleeper).  What the worker and the sleeper return is  *)
(* drawn; events is the list of their invocations so far, each with what   *)
(* it returned.                                                            *)

\* no health check has just been made
NoCheck == [made |-> FALSE, numNodes |-> 0, got |-> [nodes |-> <<>>, err |-> NoErr],
            ok |-> FALSE, err |-> NoErr]

InitRl == [pc |-> "idle", numAttempts |-> 0, sleepSeconds |-> 0, events |-> <<>>,
           result |-> NoErr,
           entry |-> "none",      \* the package function the process runs, if it runs one
           waiter |-> "none",     \* the method that called RetryLoop, if the model follows one
           numNodes |-> 0,        \* its argument numNodes
           maxAttempts |-> 0,     \* its argument maxAttempts
           check |-> NoCheck]     \* the health check its worker has just made

\* an invocation of the worker and what it returned
WorkerEvent(workerFinished, err) ==
    [op |-> "worker", flag |-> workerFinished, err |-> err, n |-> 0, secs |-> 0]

\* an invocation of the sleeper: its argument and what it returned
SleeperEvent(retryCount, shouldContinue, sleepSeconds) ==
    [op |-> "sleeper", flag |-> shouldContinue, err |-> NoErr,
     n |-> retryCount, secs |-> sleepSeconds]

\* the errors a worker returns
WorkerErrors == {NoErr, ErrConnRefused, ErrExit}

\* the seconds a sleeper asks for
SleeperSeconds == {-1, 10, 20}

ErrGivingUp(numAttempts) ==
    <<"RetryLoop", "giving", "up", "after">> \o Decimal(numAttempts) \o <<"attempts">>

\* a faulty variant: workerFinished is looked at before err
WorkerDoneFirst(workerFinished, err) ==
    IF workerFinished THEN [pc |-> "returned", result |-> NoErr]
    ELSE IF err # NoErr THEN [pc |-> "returned", result |-> err]
    ELSE [pc |-> "sleeper", result |-> NoErr]

\* RetryLoop: what follows a return of the worker
AfterWorker(workerFinished, err) ==
    IF err # NoErr THEN [pc |-> "returned", result |-> err]
    ELSE IF workerFinished THEN [pc |-> "returned", result |-> NoErr]
    ELSE [pc |-> "sleeper", result |-> NoErr]

\* a faulty variant: the loop goes on although the sleeper said stop
SleeperStopIgnored(shouldContinue, numAttempts) ==
    [pc |-> "sleeping", result |-> NoErr]

\* RetryLoop: what follows a return of the sleeper
AfterSleeper(shouldContinue, numAttempts) ==
    IF ~shouldContinue
    THEN [pc |-> "returned", result |-> ErrGivingUp(numAttempts)]
    ELSE [pc |-> "sleeping", result |-> NoErr]

\* the number of worker invocations among the events
RECURSIVE WorkerCalls(_)
WorkerCalls(events) ==
    IF events = <<>> THEN 0
    ELSE (IF Head(events).op = "worker" THEN 1 ELSE 0) + WorkerCalls(Tail(events))

\* RetryLoop is called: numAttempts := 1
RetryLoop ==
    /\ rl.pc = "idle"
    /\ rl' = [rl EXCEPT !.pc = "worker", !.numAttempts = 1]
    /\ UNCHANGED <<etcd, winners, dirCreatedBy, pc, sleepLeft, cb, serverBuckets, loc, hist, retErr>>

\* workerFinished, err := worker()
RetryLoopWorker ==
    /\ rl.pc = "worker"
    /\ WorkerCalls(rl.events) < MaxWorkerCalls
    /\ \E workerFinished \in BOOLEAN, err \in WorkerErrors :
         LET out == AfterWorker(workerFinished, err)
         IN  rl' = [rl EXCEPT !.pc = out.pc, !.result = out.result,
                              !.events = Append(@, WorkerEvent(workerFinished, err))]
    /\ UNCHANGED <<etcd, winners, dirCreatedBy, pc, sleepLeft, cb, serverBuckets, loc, hist, retErr>>

\* shouldContinue, sleepSeconds := sleeper(numAttempts)
RetryLoopSleeper ==
    /\ rl.pc = "sleeper"
    /\ \E shouldContinue \in BOOLEAN, sleepSeconds \in SleeperSeconds :
         LET out == AfterSleeper(shouldContinue, rl.numAttempts)
         IN  rl' = [rl EXCEPT !.pc = out.pc, !.result = out.result,
                              !.sleepSeconds = sleepSeconds,
                              !.events = Append(@, SleeperEvent(rl.numAttempts,
                                                    shouldContinue, sleepSeconds))]
    /\ UNCHANGED <<etcd, winners, dirCreatedBy, pc, sleepLeft, cb, serverBuckets, loc, hist, retErr>>

\* <-time.After(...); numAttempts += 1
RetryLoopSleep ==
    /\ rl.pc = "sleeping"
    /\ rl' = [rl EXCEPT !.pc = "worker", !.numAttempts = @ + 1, !.sleepSeconds = 0]
    /\ UNCHANGED <<etcd, winners, dirCreatedBy, pc, sleepLeft, cb, serverBuckets, loc, hist, retErr>>

---------------------------------------------------------------------------
(* WaitUntilClusterRunning and WaitUntilNumNodesRunning: RetryLoop with the *)
(* worker and the sleeper these functions hand to it.  The methods are      *)
(* called with maxAttempts on a struct that is set up, or by the package    *)
(* functions WaitUntilCBClusterRunning and WaitUntilNumNodesRunning, which  *)
(* build the struct, load the admin credentials from the store, set the     *)
(* port and pass numRetries; an error they get ends the process.            *)

\* the other node of the cluster that liveNodeIp answers for
OtherNodeIp(liveNodeIp) == IF liveNodeIp = IpOf(1) THEN IpOf(2) ELSE IpOf(1)

\* a faulty variant: the sleeper stops at attempt maxAttempts
WaitSleeperStopsEarly(numAttempts, maxAttempts) ==
    IF numAttempts >= maxAttempts
    THEN [shouldContinue |-> FALSE, sleepSeconds |-> -1]
    ELSE [shouldContinue |-> TRUE, sleepSeconds |-> 10 * numAttempts]

\* the sleeper of both waiters
WaitSleeperResult(numAttempts, maxAttempts) ==
    IF numAttempts > maxAttempts
    THEN [shouldContinue |-> FALSE, sleepSeconds |-> -1]
    ELSE [shouldContinue |-> TRUE, sleepSeconds |-> 10 * numAttempts]

\* c := &CouchbaseCluster{}: every field is empty
NewCouchbaseCluster ==
    [LocalCouchbaseIp           |-> <<>>,
     LocalCouchbasePort         |-> <<>>,
     LocalCouchbaseVersion      |-> <<>>,
     AdminUsername              |-> <<>>,
     AdminPassword              |-> <<>>,
     defaultBucketRamQuotaMB    |-> <<>>,
     defaultBucketReplicaNumber |-> <<>>]

\* numRetries := 10000 of the package functions
numRetries == 10000

\* the answers of etcdClient.Get(KEY_USER_PASS, false, false)
UserPassResponses ==
    << [err |-> NoErr, value |-> <<"admin", ":", "pw">>],
       [err |-> NoErr, value |-> <<"u", ":", "p", ":", "x">>],
       [err |-> NoErr, value |-> <<":">>],
       [err |-> NoErr, value |-> <<"admin">>],
       [err |-> ErrKeyNotFound, value |-> <<>>],
       [err |-> ErrEtcdDown, value |-> <<>>] >>

RECURSIVE Split(_, _)
\* strings.Split(s, sep) for a separator of one element
Split(s, sep) ==
    IF \A k \in DOMAIN s : s[k] # sep THEN <<s>>
    ELSE LET k == CHOOSE j \in DOMAIN s :
                      s[j] = sep /\ \A m \in 1 .. (j - 1) : s[m] # sep
         IN  <<SubSeq(s, 1, k - 1)>> \o Split(SubSeq(s, k + 1, Len(s)), sep)

ErrInvalidUserPass(userpassRaw) == <<"Invalid", "user/pass:">> \o userpassRaw

ErrLoadAdminCreds ==
    <<"Unable", "to", "load", "admin", "creds", "after", "several", "retries">>

\* the package function WaitUntilCBClusterRunning(etcdServers) is started:
\* couchbaseCluster := NewCouchbaseCluster(etcdServers), and
\* LoadAdminCredsFromEtcd is entered with sleepSeconds := 10
WaitUntilCBClusterRunning ==
    /\ rl.pc = "idle"
    /\ rl' = [rl EXCEPT !.pc = "LoadAdminCredsFromEtcd",
                         !.entry = "WaitUntilCBClusterRunning"]
    /\ cb' = [cb EXCEPT ![Local] = NewCouchbaseCluster]
    /\ loc' = [loc EXCEPT ![Local].i = 0, ![Local].sleepSeconds = 10]
    /\ UNCHANGED <<etcd, winners, dirCreatedBy, pc, sleepLeft, serverBuckets, hist, retErr>>

\* the package function WaitUntilNumNodesRunning(numNodes, etcdServers) is
\* started in the same way
PkgWaitUntilNumNodesRunning ==
    /\ rl.pc = "idle"
    /\ rl' = [rl EXCEPT !.pc = "LoadAdminCredsFromEtcd",
                         !.entry = "WaitUntilNumNodesRunning"]
    /\ cb' = [cb EXCEPT ![Local] = NewCouchbaseCluster]
    /\ loc' = [loc EXCEPT ![Local].i = 0, ![Local].sleepSeconds = 10]
    /\ UNCHANGED <<etcd, winners, dirCreatedBy, pc, sleepLeft, serverBuckets, hist, retErr>>

\* one iteration of the loop of LoadAdminCredsFromEtcd; an error it returns
\* ends the process (log.Fatalf)
LoadAdminCredsFromEtcd ==
    /\ rl.pc = "LoadAdminCredsFromEtcd"
    /\ \E k \in DOMAIN UserPassResponses :
         LET response    == UserPassResponses[k]
             userpassRaw == response.value
             n           == loc[Local].i + 1
         IN  IF response.err # NoErr
             THEN /\ loc' = [loc EXCEPT ![Local].i = n]
                  /\ rl' = IF LoopEnds(n, MAX_RETRIES_JOIN_CLUSTER)
                           THEN [rl EXCEPT !.pc = "returned",
                                           !.result = ErrLoadAdminCreds]
                           ELSE rl
                  /\ UNCHANGED cb
             ELSE IF ~Contains(userpassRaw, <<":">>)
             THEN /\ rl' = [rl EXCEPT !.pc = "returned",
                                      !.result = ErrInvalidUserPass(userpassRaw)]
                  /\ UNCHANGED <<cb, loc>>
             ELSE LET userpassComponents == Split(userpassRaw, ":")
                  IN  /\ cb' = [cb EXCEPT
                                  ![Local].AdminUsername = userpassComponents[1],
                                  ![Local].AdminPassword = userpassComponents[2]]
                      /\ rl' = [rl EXCEPT !.pc = "StupidPortHack"]
                      /\ UNCHANGED loc
    /\ UNCHANGED <<etcd, winners, dirCreatedBy, pc, sleepLeft, serverBuckets, hist, retErr>>

\* cluster.LocalCouchbasePort = "8091"
StupidPortHack ==
    /\ rl.pc = "StupidPortHack"
    /\ cb' = [cb EXCEPT ![Local].LocalCouchbasePort = <<"8", "0", "9", "1">>]
    /\ rl' = [rl EXCEPT !.pc = "configured"]
    /\ UNCHANGED <<etcd, winners, dirCreatedBy, pc, sleepLeft, serverBuckets, loc, hist, retErr>>

\* the method is called with maxAttempts, or by the package function
\* WaitUntilCBClusterRunning with numRetries
WaitUntilClusterRunning ==
    /\ \/ rl.pc = "idle"
       \/ rl.pc = "configured" /\ rl.entry = "WaitUntilCBClusterRunning"
    /\ rl' = [rl EXCEPT !.pc = "worker", !.numAttempts = 1,
                         !.maxAttempts = IF rl.pc = "configured" THEN numRetries ELSE @,
                         !.waiter = "WaitUntilClusterRunning"]
    /\ UNCHANGED <<etcd, winners, dirCreatedBy, pc, sleepLeft, cb, serverBuckets, loc, hist, retErr>>

\* the method is called with numNodes and maxAttempts, or by the package
\* function WaitUntilNumNodesRunning with numNodes and numRetries
WaitUntilNumNodesRunning ==
    /\ \/ rl.pc = "idle"
       \/ rl.pc = "configured" /\ rl.entry = "WaitUntilNumNodesRunning"
    /\ rl' = [rl EXCEPT !.pc = "worker", !.numAttempts = 1,
                         !.maxAttempts = IF rl.pc = "configured" THEN numRetries ELSE @,
                         !.waiter = "WaitUntilNumNodesRunning"]
    /\ UNCHANGED <<etcd, winners, dirCreatedBy, pc, sleepLeft, cb, serverBuckets, loc, hist, retErr>>

\* workerFinished, err := worker(): FindLiveNode, then the health check on
\* the node found; every failure is (false, nil)
WaitWorker ==
    /\ rl.pc = "worker"
    /\ rl.waiter # "none"
    /\ rl.numAttempts <= MaxMaxAttempts + 1   \* the attempts the model follows
    /\ \E resp \in EtcdGet(etcd) \cup {EtcdDownResponse} :
         LET found == FindLiveNode(resp)
         IN  IF found.err # NoErr \/ found.ip = <<>>
             THEN LET out == AfterWorker(FALSE, NoErr)
                  IN  rl' = [rl EXCEPT !.pc = out.pc, !.result = out.result,
                                       !.check = NoCheck,
                                       !.events = Append(@, WorkerEvent(FALSE, NoErr))]
             ELSE \E k \in DOMAIN TopologyResponses(OtherNodeIp(found.ip), found.ip) :
                    LET got == GetClusterNodes(
                                   TopologyResponses(OtherNodeIp(found.ip), found.ip)[k])
                        n   == IF rl.waiter = "WaitUntilClusterRunning"
                               THEN -1 ELSE rl.numNodes
                        chk == IF rl.waiter = "WaitUntilClusterRunning"
                               THEN CheckAllNodesClusterHealthy(got)
                               ELSE CheckNumNodesClusterHealthy(rl.numNodes, got)
                        fin == ~(chk.err # NoErr \/ ~chk.ok)
                        out == AfterWorker(fin, NoErr)
                    IN  rl' = [rl EXCEPT !.pc = out.pc, !.result = out.result,
                                         !.check = [made |-> TRUE, numNodes |-> n,
                                                    got |-> got, ok |-> chk.ok,
                                                    err |-> chk.err],
                                         !.events = Append(@, WorkerEvent(fin, NoErr))]
    /\ UNCHANGED <<etcd, winners, dirCreatedBy, pc, sleepLeft, cb, serverBuckets, loc, hist, retErr>>

\* shouldContinue, sleepSeconds := sleeper(numAttempts)
WaitSleeper ==
    /\ rl.pc = "sleeper"
    /\ rl.waiter # "none"
    /\ LET s   == WaitSleeperResult(rl.numAttempts, rl.maxAttempts)
           out == AfterSleeper(s.shouldContinue, rl.numAttempts)
       IN  rl' = [rl EXCEPT !.pc = out.pc, !.result = out.result,
                            !.sleepSeconds = s.sleepSeconds,
                            !.check = NoCheck,
                            !.events = Append(@, SleeperEvent(rl.numAttempts,
                                                  s.shouldContinue, s.sleepSeconds))]
    /\ UNCHANGED <<etcd, winners, dirCreatedBy, pc, sleepLeft, cb, serverBuckets, loc, hist, retErr>>

---------------------------------------------------------------------------
(* The membership protocol of all agents.  Every agent runs                 *)
(* StartCouchbaseNode statement by statement, may die at any place and is   *)
(* started again.  Each call of lines 86-112 is answered with success the   *)
(* first time it is made; the requests and answers of those lines are not   *)
(* recorded.                                                                *)

\* no agent is started yet; the agents in F are followed
InitAgentsFollowing(F) ==
    /\ pc = [a \in Agents |-> "StartCouchbaseNode"]
    /\ sleepLeft = [a \in Agents |-> 0]
    /\ loc = [a \in Agents |-> InitLoc]
    /\ hist = [a \in Agents |-> IF a \in F THEN InitHist ELSE Unfollowed]
    /\ retErr = [a \in Agents |-> NoErr]

InitAgents == InitAgentsFollowing(Agents)

\* servers without a bucket
InitServers == serverBuckets = [a \in Agents |-> <<>>]

InitStore ==
    /\ etcd = EmptyStore
    /\ winners = {}
    /\ dirCreatedBy = "none"

InitMembership ==
    /\ InitStore
    /\ InitAgents
    /\ InitServers
    /\ cb = [a \in Agents |-> InitCb(IpOf(a))]
    /\ rl = InitRl

LocalStep(a) ==
    \/ PrepareVarDirectory(a)
    \/ StartCouchbaseService(a)
    \/ FetchClusterDetails(a)
    \/ ClusterInit(a)
    \/ SetClusterRam(a)
    \/ CreateDefaultBucket(a)
    \/ JoinExistingCluster(a)
    \/ JoinLiveNode(a)
    \/ AddNodeRetry(a)
    \/ WaitUntilNoRebalanceRunning(a)
    \/ TriggerRebalance(a)

\* a step of action A in which agent a's call is answered with success the
\* first time it is made: no retry loop repeats and nothing fails.  A peer
\* whose call is not answered so takes no further step.
FirstTime(a, A) == A /\ loc'[a].i = 0 /\ pc'[a] # "returned"

\* lines 86-112 run by a peer
PeerStep(a) ==
    \/ FirstTime(a, PrepareVarDirectory(a))
    \/ FirstTime(a, StartCouchbaseService(a))
    \/ FirstTime(a, FetchClusterDetails(a))
    \/ FirstTime(a, ClusterInit(a))
    \/ FirstTime(a, SetClusterRam(a))
    \/ FirstTime(a, CreateDefaultBucket(a))
    \/ FirstTime(a, JoinExistingCluster(a))
    \/ FirstTime(a, JoinLiveNode(a))
    \/ FirstTime(a, AddNodeRetry(a))
    \/ FirstTime(a, WaitUntilNoRebalanceRunning(a))
    \/ FirstTime(a, TriggerRebalance(a))

MemberStep(a) ==
    \/ StartCouchbaseNode(a)
    \/ BecomeFirstClusterNode(a)
    \/ EventLoop(a)
    \/ PublishNodeStateEtcd(a)

NextMembership ==
    \/ \E a \in Agents : MemberStep(a)
    \/ \E a \in Agents : PeerStep(a)
    \/ \E a \in Agents : Crash(a)
    \/ \E a \in Agents : Restart(a)
    \/ Tick

\* no agent is started yet and none is followed; the servers hold the
\* default bucket of an earlier run
InitMembers ==
    /\ InitStore
    /\ InitAgentsFollowing({})
    /\ serverBuckets = [a \in Agents |-> <<BucketEntry(JStr(<<"default">>))>>]
    /\ cb = [a \in Agents |-> InitCb(IpOf(a))]
    /\ rl = InitRl

SpecMembership == InitMembers /\ [][NextMembership]_vars

---------------------------------------------------------------------------
(* One node started among its peers.  Agent Local runs StartCouchbaseNode  *)
(* statement by statement against every answer of the store and of the     *)
(* cluster; the other agents are its peers: they run the same statements,  *)
(* their calls of lines 86-112 answered with success the first time, and   *)
(* what they ask and get is not recorded.                                  *)

Init ==
    /\ InitStore
    /\ InitAgentsFollowing({Local})
    /\ \E list \in BucketLists :
         serverBuckets = [a \in Agents |-> IF a = Local THEN list ELSE <<>>]
    /\ \E ip \in {<<>>, IpOf(Local)} :
         cb = [a \in Agents |-> InitCb(IF a = Local THEN ip ELSE IpOf(a))]
    /\ rl = InitRl

Next ==
    \/ MemberStep(Local)
    \/ LocalStep(Local)
    \/ \E a \in Agents \ {Local} : MemberStep(a)
    \/ \E a \in Agents \ {Local} : PeerStep(a)
    \/ Tick

Spec == Init /\ [][Next]_vars

---------------------------------------------------------------------------
(* Two nodes are brought up while the store and the cluster answer every    *)
(* call successfully.  Agent Peer is started first and becomes the first    *)
(* node; agent Local is started once Peer is in EventLoop and has published *)
(* its entry.  Peer's cluster consists of Peer alone until Local's          *)
(* add-node.                                                                *)

Peer == 2

\* every call made so far was answered successfully: the store was reached,
\* no step failed or had to be retried, and no rebalance was running
Succeeded ==
    \A a \in Agents :
        /\ pc[a] # "returned"
        /\ hist[a].hb # "failed"
        /\ hist[a].raised = NoErr
        /\ hist[a].election.resp # "failed"
        /\ loc[a].i = 0
        /\ hist[a].addNode.postErr = NoErr
        /\ hist[a].status \in {"unread", "none"}

\* the cluster the peer reports: the peer alone until the add-node, the peer
\* and the new node after it
ClusterOfPeer ==
    /\ ~loc[Local].inCluster
    /\ hist[Local].topology.made =>
           \/ hist[Local].topology.nodes = <<Healthy(IpOf(Peer)), Healthy(IpOf(Local))>>
           \/ hist[Local].topology.nodes = <<Healthy(IpOf(Peer)), Warmup(IpOf(Local))>>

\* a step of action A in which the store and the cluster answer successfully
Answered(A) == A /\ Succeeded' /\ ClusterOfPeer'

\* the peer heartbeats and its entry is in the membership directory
PeerHeartbeating == Steady(Peer) /\ OwnKey(Peer) \in DOMAIN etcd.nodes

\* an agent is started: Peer at any time, Local once Peer heartbeats
StartStep(a) ==
    /\ a = Local => PeerHeartbeating
    /\ Answered(StartCouchbaseNode(a))

JoinStep(a) ==
    \/ StartStep(a)
    \/ Answered(BecomeFirstClusterNode(a))
    \/ Answered(PrepareVarDirectory(a))
    \/ Answered(StartCouchbaseService(a))
    \/ Answered(FetchClusterDetails(a))
    \/ Answered(ClusterInit(a))
    \/ Answered(SetClusterRam(a))
    \/ Answered(CreateDefaultBucket(a))
    \/ Answered(JoinExistingCluster(a))
    \/ Answered(JoinLiveNode(a))
    \/ Answered(AddNodeRetry(a))
    \/ Answered(WaitUntilNoRebalanceRunning(a))
    \/ Answered(TriggerRebalance(a))
    \/ Answered(EventLoop(a))
    \/ Answered(PublishNodeStateEtcd(a))

NextJoin ==
    \/ \E a \in {Local, Peer} : JoinStep(a)
    \/ Punctual(Tick)

\* both processes keep running and time passes
SpecJoin ==
    /\ InitMembership
    /\ [][NextJoin]_vars
    /\ \A a \in {Local, Peer} : WF_vars(JoinStep(a))
    /\ WF_vars(Punctual(Tick))

---------------------------------------------------------------------------
(* A node is started while the first node is still initialising.  Agent     *)
(* Peer has won the election when agent Local is started; the store and the *)
(* cluster answer every call successfully, but FindLiveNode finds no entry  *)
(* until Peer has published its own.                                        *)

ErrJoinRetries == <<"Failed", "to", "join", "cluster", "after", "several", "retries">>

\* every call made so far was answered successfully; the only step that had
\* to be repeated is the discovery of a live node, and the only error is
\* that of a discovery that has run out of attempts
SucceededOrWaited ==
    \A a \in Agents :
        /\ hist[a].hb # "failed"
        /\ hist[a].election.resp # "failed"
        /\ hist[a].find.made => hist[a].find.reached
        /\ hist[a].addNode.postErr = NoErr
        /\ hist[a].status \in {"unread", "none"}
        /\ loc[a].i = 0 \/ pc[a] \in {"JoinExistingCluster", "JoinLiveNode"}
        /\ hist[a].raised \in {NoErr, ErrJoinRetries}
        /\ pc[a] = "returned" => retErr[a] = ErrJoinRetries

\* a step of action A in which the store and the cluster answer successfully
Waited(A) == A /\ SucceededOrWaited' /\ ClusterOfPeer'

\* an agent is started: Peer at any time, Local once Peer has won the election
StartAfterElection(a) ==
    /\ a = Local => winners = {Peer}
    /\ Waited(StartCouchbaseNode(a))

ConvergeStep(a) ==
    \/ StartAfterElection(a)
    \/ Waited(BecomeFirstClusterNode(a))
    \/ Waited(PrepareVarDirectory(a))
    \/ Waited(StartCouchbaseService(a))
    \/ Waited(FetchClusterDetails(a))
    \/ Waited(ClusterInit(a))
    \/ Waited(SetClusterRam(a))
    \/ Waited(CreateDefaultBucket(a))
    \/ Waited(JoinExistingCluster(a))
    \/ Waited(JoinLiveNode(a))
    \/ Waited(AddNodeRetry(a))
    \/ Waited(WaitUntilNoRebalanceRunning(a))
    \/ Waited(TriggerRebalance(a))
    \/ Waited(EventLoop(a))
    \/ Waited(PublishNodeStateEtcd(a))

NextConverge ==
    \/ \E a \in {Local, Peer} : ConvergeStep(a)
    \/ Punctual(Tick)

\* both processes keep running and time passes
SpecConverge ==
    /\ InitMembership
    /\ [][NextConverge]_vars
    /\ \A a \in {Local, Peer} : WF_vars(ConvergeStep(a))
    /\ WF_vars(Punctual(Tick))

---------------------------------------------------------------------------
(* One node started among its peers, as in Spec, against a server without  *)
(* buckets, and its process is scheduled: a step of agent Local that can    *)
(* be taken is taken in the end.  A request is answered, fails, or is never *)
(* answered: POST makes its request with an http.Client without Timeout,    *)
(* and the commands are run without a deadline, so that the call of a       *)
(* server or a command that stays silent does not return.                   *)

\* the statements of lines 86-112 that run a command (cmd.CombinedOutput,
\* cmd.Run, cmd.Output) or call POST
BlockingPlaces ==
    {"PrepareVarDirectory", "StartCouchbaseService", "ClusterInit", "SetClusterRam",
     "CreateDefaultBucket", "AddNodeRetry", "TriggerRebalance"}

\* agent a is in a call that does not return
Blocked(a) == pc[a] = "blocked"

\* the command or the POST of the statement agent a is at is started and
\* never returns
CallNeverReturns(a) ==
    /\ pc[a] \in BlockingPlaces
    /\ Goto(a, "blocked")
    /\ UNCHANGED <<etcd, winners, dirCreatedBy, sleepLeft, cb, serverBuckets, loc, hist, rl>>

InitStart ==
    /\ InitStore
    /\ InitAgentsFollowing({Local})
    /\ InitServers
    /\ \E ip \in {<<>>, IpOf(Local)} :
         cb = [a \in Agents |-> InitCb(IF a = Local THEN ip ELSE IpOf(a))]
    /\ rl = InitRl

NextStart ==
    \/ Next
    \/ CallNeverReturns(Local)

SpecStart ==
    /\ InitStart
    /\ [][NextStart]_vars
    /\ WF_vars(MemberStep(Local) \/ LocalStep(Local))

---------------------------------------------------------------------------
(* One node that is started again and again: agent Local runs              *)
(* StartCouchbaseNode statement by statement, may die at any place and is   *)
(* started again, against the same Couchbase server and the same store.     *)

NextRestart ==
    \/ MemberStep(Local)
    \/ LocalStep(Local)
    \/ Crash(Local)
    \/ Restart(Local)
    \/ Tick

SpecRestart == Init /\ [][NextRestart]_vars

---------------------------------------------------------------------------
(* One call of RetryLoop *)

NextRetry == RetryLoop \/ RetryLoopWorker \/ RetryLoopSleeper \/ RetryLoopSleep

SpecRetry == InitMembership /\ [][NextRetry]_vars

---------------------------------------------------------------------------
(* One call of a waiter.  The store does not change during the call: it is *)
(* empty, or holds the directory with the entries of no, one or two nodes. *)

\* the store after the heartbeats of the agents in S
RECURSIVE StoreWith(_)
StoreWith(S) ==
    IF S = {}
    THEN EtcdCreateDir(EmptyStore, TTL_NONE).st
    ELSE LET a == CHOOSE x \in S : TRUE
         IN  EtcdSet(StoreWith(S \ {a}), PathJoin(KEY_NODE_STATE, IpOf(a)), ttlSeconds).st

InitWait ==
    /\ InitAgents
    /\ InitServers
    /\ winners = {}
    /\ dirCreatedBy = "none"
    /\ cb = [a \in Agents |-> InitCb(IpOf(a))]
    /\ etcd \in {EmptyStore} \cup {StoreWith(S) : S \in SUBSET Agents}
    /\ \E numNodes \in {-1} \cup (0 .. MaxNumNodes), maxAttempts \in 0 .. MaxMaxAttempts :
         rl = [InitRl EXCEPT !.numNodes = numNodes, !.maxAttempts = maxAttempts]

NextWait ==
    \/ WaitUntilCBClusterRunning
    \/ PkgWaitUntilNumNodesRunning
    \/ LoadAdminCredsFromEtcd
    \/ StupidPortHack
    \/ WaitUntilClusterRunning
    \/ WaitUntilNumNodesRunning
    \/ WaitWorker
    \/ WaitSleeper
    \/ RetryLoopSleep

SpecWait == InitWait /\ [][NextWait]_vars

---------------------------------------------------------------------------
(* Properties *)

\* the function named place has been entered in agent a's run
Called(a, place) == \E k \in DOMAIN hist[a].calls : hist[a].calls[k] = place

\* every entry of p in agent a's run came before every entry of q
CalledBefore(a, p, q) ==
    \A k, m \in DOMAIN hist[a].calls :
        (hist[a].calls[k] = p /\ hist[a].calls[m] = q) => k < m

\* agent a has issued a POST to path
Posted(a, path) == \E k \in DOMAIN hist[a].posts : hist[a].posts[k].path = path

\* C1: of the elections held against one directory, at most one returns
\* (true, nil); an election that finds the directory returns (false, nil),
\* never an error, and only the election that created it returns true.
AtMostOneFirstNode ==
    /\ Cardinality(winners) <= 1
    /\ \A a \in Agents :
         /\ hist[a].election.resp = "exists" =>
                (~hist[a].election.isFirst /\ hist[a].election.err = NoErr)
         /\ hist[a].election.resp = "created" =>
                (hist[a].election.isFirst /\ hist[a].election.err = NoErr)
         /\ hist[a].election.isFirst => hist[a].election.resp = "created"

\* two agents have just held their elections: one created the directory, the
\* other found it
TwoElectionsHeld ==
    \E a, b \in Agents :
        /\ a # b
        /\ hist[a].election.resp = "created"
        /\ hist[b].election.resp = "exists"

\* C2: while an agent is in EventLoop and all its store writes have
\* succeeded, the membership directory exists, and an election held by another
\* agent in that period does not return isFirst = true.
HeartbeatKeepsDirectory ==
    /\ (\E a \in Agents : Steady(a)) => etcd.dir
    /\ \A b \in Agents : hist[b].election.steadyPeer => ~hist[b].election.isFirst

\* an election has just been held while a peer was heartbeating, a tick after
\* that peer's last refresh of the directory
ElectionDuringHeartbeat ==
    \E b \in Agents :
        /\ hist[b].election.steadyPeer
        /\ hist[b].election.resp = "exists"
        /\ etcd.ttl = ttlSeconds - TickSeconds

\* C3: a fatal error raised by a step before EventLoop is what
\* StartCouchbaseNode returns, and the agent has no entry of its own under the
\* membership directory.
FatalErrorIsReturned ==
    hist[Local].raised # NoErr =>
        /\ pc[Local] = "returned"
        /\ retErr[Local] = hist[Local].raised
        /\ OwnKey(Local) \notin DOMAIN etcd.nodes

\* the steps before the switch on the election's result
PreBranch ==
    {"StartCouchbaseNode", "BecomeFirstClusterNode", "PrepareVarDirectory",
     "StartCouchbaseService", "FetchClusterDetails"}

\* C4: ClusterInit and CreateDefaultBucket run only in a run whose election
\* returned true, JoinExistingCluster only in one whose election returned
\* false, never both; a run that is past the version fetch has taken the
\* branch its election chose; EventLoop is entered only after the election
\* and the whole chosen branch, and with no error returned.
PhaseOrder ==
    LET a       == Local
        initial == Called(a, "ClusterInit")
        joining == Called(a, "JoinExistingCluster")
    IN  /\ ~(initial /\ joining)
        /\ initial => loc[a].success
        /\ joining => ~loc[a].success
        /\ Called(a, "CreateDefaultBucket") => (initial /\ Called(a, "SetClusterRam"))
        /\ (initial \/ joining) => Called(a, "BecomeFirstClusterNode")
        /\ pc[a] \notin (PreBranch \cup {"returned"}) =>
               ((loc[a].success <=> initial) /\ (~loc[a].success <=> joining))
        /\ CalledBefore(a, "BecomeFirstClusterNode", "ClusterInit")
        /\ CalledBefore(a, "BecomeFirstClusterNode", "JoinExistingCluster")
        /\ CalledBefore(a, "ClusterInit", "CreateDefaultBucket")
        /\ (pc[a] \in HbPcs <=> Called(a, "EventLoop"))
        /\ Called(a, "EventLoop") =>
               /\ retErr[a] = NoErr
               /\ hist[a].calls[Len(hist[a].calls)] = "EventLoop"
               /\ IF loc[a].success
                  THEN /\ Called(a, "CreateDefaultBucket")
                       /\ CalledBefore(a, "CreateDefaultBucket", "EventLoop")
                  ELSE /\ Called(a, "JoinLiveNode")
                       /\ Called(a, "TriggerRebalance")
                       /\ CalledBefore(a, "JoinExistingCluster", "JoinLiveNode")
                       /\ CalledBefore(a, "TriggerRebalance", "EventLoop")

\* the election winner has initialised the cluster and the bucket and is in
\* EventLoop
FirstNodeHeartbeats ==
    /\ pc[Local] \in HbPcs
    /\ loc[Local].success
    /\ Posted(Local, "/settings/web")
    /\ Called(Local, "CreateDefaultBucket")

\* C5: an agent in EventLoop stays in it whatever its store writes return:
\* the refresh is followed by the publish, the publish by the sleep, and the
\* sleep by the refresh again.
HeartbeatNeverExits ==
    [][\A a \in Agents :
          /\ pc[a] = "EventLoop" => pc'[a] \in {"EventLoop", "PublishNodeStateEtcd"}
          /\ pc[a] = "PublishNodeStateEtcd" => pc'[a] \in {"PublishNodeStateEtcd", "Sleep"}
          /\ pc[a] = "Sleep" => pc'[a] \in {"Sleep", "EventLoop"}]_vars

\* the agent is about to publish again after a publish that failed
PublishAfterFailedPublish ==
    /\ pc[Local] = "PublishNodeStateEtcd"
    /\ loc[Local].lastErr # NoErr

\* C6: a worker invocation that returns an error is the last thing RetryLoop
\* does: no sleeper call and no worker call follows it, and RetryLoop has
\* returned that error.
WorkerErrorAborts ==
    \A k \in DOMAIN rl.events :
        (rl.events[k].op = "worker" /\ rl.events[k].err # NoErr) =>
            /\ k = Len(rl.events)
            /\ rl.pc = "returned"
            /\ rl.result = rl.events[k].err

\* a worker has returned an error on a later attempt, after the sleeper was
\* consulted for the earlier ones
WorkerErrorAfterRetries ==
    /\ Len(rl.events) >= 3
    /\ rl.events[Len(rl.events)].op = "worker"
    /\ rl.events[Len(rl.events)].err # NoErr
    /\ rl.pc = "returned"

\* the worker invocation reported done with no error
ReportedDone(e) == e.op = "worker" /\ e.flag /\ e.err = NoErr

\* the sleeper invocation signalled stop
SignalledStop(e) == e.op = "sleeper" /\ ~e.flag

\* C7: RetryLoop returns nil exactly when a worker invocation reports done
\* with no error, and that invocation is its last; when the sleeper signals
\* stop that is the last invocation too, and RetryLoop returns the "giving up"
\* error, which is no worker error.
RetryLoopOutcome ==
    /\ \A k \in DOMAIN rl.events :
         ReportedDone(rl.events[k]) =>
             (k = Len(rl.events) /\ rl.pc = "returned" /\ rl.result = NoErr)
    /\ (rl.pc = "returned" /\ rl.result = NoErr) =>
           (rl.events # <<>> /\ ReportedDone(rl.events[Len(rl.events)]))
    /\ \A k \in DOMAIN rl.events :
         SignalledStop(rl.events[k]) =>
             /\ k = Len(rl.events)
             /\ rl.pc = "returned"
             /\ rl.result = ErrGivingUp(rl.events[k].n)
             /\ rl.result \notin WorkerErrors
             /\ \A m \in 1 .. k : ~ReportedDone(rl.events[m])

\* the sleeper has signalled stop after the worker was retried
SleeperStoppedRetries ==
    /\ Len(rl.events) >= 4
    /\ SignalledStop(rl.events[Len(rl.events)])
    /\ rl.pc = "returned"

\* C8: a FindLiveNode call made while the membership directory is absent or
\* has no children returns the empty address and no error; made while it has
\* exactly one child, it returns the last path element of that child's key.
FindLiveNodeResult ==
    LET f == hist[Local].find
    IN  (f.made /\ f.reached) =>
            /\ (~f.dir \/ f.children = {}) => (f.ip = <<>> /\ f.err = NoErr)
            /\ (f.dir /\ Cardinality(f.children) = 1) =>
                   (\E key \in f.children : f.ip = PathSplitFile(key) /\ f.err = NoErr)

\* C9: JoinExistingCluster makes at most 10 FindLiveNode calls; after its k-th
\* call that found no peer it sleeps 10*k seconds; the first call that finds a
\* peer is followed by the one JoinLiveNode call with that address and no
\* further discovery; 10 calls without a peer end in an error.
JoinExistingClusterRetries ==
    LET a == Local
        h == hist[a]
        exhausted == <<"Failed", "to", "join", "cluster", "after", "several", "retries">>
    IN  /\ h.finds <= MAX_RETRIES_JOIN_CLUSTER
        /\ pc[a] = "JoinExistingCluster" =>
               /\ loc[a].i < MAX_RETRIES_JOIN_CLUSTER
               /\ h.finds = loc[a].i
               /\ loc[a].sleepSeconds = 10 * loc[a].i
               /\ h.slept = 10 * loc[a].i
               /\ ~Called(a, "JoinLiveNode")
        /\ (h.find.made /\ h.find.ip # <<>>) =>
               /\ pc[a] = "JoinLiveNode"
               /\ loc[a].liveNodeIp = h.find.ip
        /\ \A k, m \in DOMAIN h.calls :
               (h.calls[k] = "JoinLiveNode" /\ h.calls[m] = "JoinLiveNode") => k = m
        /\ h.finds = MAX_RETRIES_JOIN_CLUSTER =>
               IF h.find.ip = <<>>
               THEN pc[a] = "returned" /\ retErr[a] = exhausted
               ELSE pc[a] = "JoinLiveNode"
        /\ retErr[a] = exhausted =>
               /\ h.finds = MAX_RETRIES_JOIN_CLUSTER
               /\ h.slept = 10 * MAX_RETRIES_JOIN_CLUSTER
               /\ ~Called(a, "JoinLiveNode")

\* ten discovery attempts have found no peer and JoinExistingCluster has
\* returned its error
DiscoveryExhausted ==
    /\ pc[Local] = "returned"
    /\ hist[Local].finds = MAX_RETRIES_JOIN_CLUSTER
    /\ hist[Local].slept = 100
    /\ Contains(retErr[Local], <<"Failed", "to", "join", "cluster">>)

\* C10: in JoinLiveNode add-node is attempted exactly when the membership
\* check did not report a healthy member; the rebalance-progress poll comes
\* after add-node succeeded or was skipped; the rebalance is triggered, and
\* its POST issued, only while the last status read is "none".
JoinLiveNodeOrder ==
    LET a == Local
        h == hist[a]
    IN  /\ Called(a, "AddNodeRetry") => ~loc[a].inCluster
        /\ Posted(a, "/controller/addNode") => Called(a, "AddNodeRetry")
        /\ Called(a, "WaitUntilNoRebalanceRunning") =>
               /\ loc[a].inCluster <=> ~Called(a, "AddNodeRetry")
               /\ IF loc[a].inCluster THEN h.added = "untried" ELSE h.added = "ok"
        /\ ~Called(a, "WaitUntilNoRebalanceRunning") => h.status = "unread"
        /\ CalledBefore(a, "JoinLiveNode", "AddNodeRetry")
        /\ CalledBefore(a, "JoinLiveNode", "WaitUntilNoRebalanceRunning")
        /\ CalledBefore(a, "AddNodeRetry", "WaitUntilNoRebalanceRunning")
        /\ CalledBefore(a, "WaitUntilNoRebalanceRunning", "TriggerRebalance")
        /\ Called(a, "TriggerRebalance") =>
               (Called(a, "WaitUntilNoRebalanceRunning") /\ h.status = "none")
        /\ Posted(a, "/controller/rebalance") =>
               (Called(a, "TriggerRebalance") /\ h.status = "none")

\* the node was added, no rebalance was running, the rebalance POST was
\* issued and answered, and the agent is in EventLoop
RebalanceAfterAddNode ==
    /\ Posted(Local, "/controller/addNode")
    /\ Posted(Local, "/controller/rebalance")
    /\ hist[Local].added = "ok"
    /\ hist[Local].status = "none"
    /\ pc[Local] \in HbPcs

\* the text AddNode looks for in the error of its POST
AlreadyPartOfCluster == <<"Node", "is", "already", "part", "of", "cluster">>

\* C11: AddNode returns nil when its POST succeeded and when the POST failed
\* with an error whose text contains "Node is already part of cluster"; any
\* other error of the POST is returned as it is.  AddNodeRetry goes on to the
\* rebalance wait exactly when AddNode returned nil.
AddNodeAbsorbsAlreadyMember ==
    LET n == hist[Local].addNode
    IN  n.made =>
            /\ n.postErr = NoErr => n.ret = NoErr
            /\ Contains(n.postErr, AlreadyPartOfCluster) => n.ret = NoErr
            /\ (n.postErr # NoErr /\ ~Contains(n.postErr, AlreadyPartOfCluster)) =>
                   n.ret = n.postErr
            /\ n.ret = NoErr <=> pc[Local] = "WaitUntilNoRebalanceRunning"

\* the add-node POST was answered with "already part of cluster" and the agent
\* has gone on to the rebalance wait
AlreadyMemberAbsorbed ==
    /\ hist[Local].addNode.made
    /\ Contains(hist[Local].addNode.postErr, AlreadyPartOfCluster)
    /\ pc[Local] = "WaitUntilNoRebalanceRunning"

\* every element of nodes is an object whose status is the string "healthy"
EveryNodeHealthy(nodes) ==
    \A k \in DOMAIN nodes :
        /\ nodes[k].t = "object"
        /\ nodes[k].status = JStr(<<"healthy">>)

\* C12: a CheckNumNodesClusterHealthy call with numNodes other than -1 on a
\* topology that lists fewer than numNodes nodes returns (false, nil),
\* whatever the entries are; a call that returns true was made on a topology
\* that lists enough nodes, each of them with status "healthy".
FewerNodesThanExpected ==
    LET c == rl.check
    IN  (c.made /\ c.got.err = NoErr) =>
            /\ (c.numNodes # -1 /\ Len(c.got.nodes) < c.numNodes) =>
                   (~c.ok /\ c.err = NoErr)
            /\ c.ok =>
                   /\ c.err = NoErr
                   /\ c.numNodes # -1 => Len(c.got.nodes) >= c.numNodes
                   /\ EveryNodeHealthy(c.got.nodes)

\* a check for three nodes has just been made on a topology of two entries,
\* one of them no object
MalformedEntryNotInspected ==
    /\ rl.check.made
    /\ rl.check.numNodes = 3
    /\ Len(rl.check.got.nodes) = 2
    /\ rl.check.got.nodes[2] = NotAnObject
    /\ ~rl.check.ok

\* the values of the form field key in the data of a request
FieldValues(data, key) == {data[k][2] : k \in {m \in DOMAIN data : data[m][1] = key}}

\* the otpNode texts of the elements of nodes, in their order
OtpNodesOf(nodes) == [k \in DOMAIN nodes |-> nodes[k].otpNode.v]

\* C13: the rebalance request of TriggerRebalance names as knownNodes the
\* otpNode of every node of the topology that call read, in the order of the
\* topology and joined by commas, and its ejectedNodes is empty; no request of
\* the agent names a node to eject.
RebalanceKnownNodes ==
    LET h == hist[Local]
    IN  /\ \A k \in DOMAIN h.posts :
              /\ FieldValues(h.posts[k].data, "ejectedNodes") \subseteq {<<>>}
              /\ h.posts[k].path = "/controller/rebalance" =>
                     /\ FieldValues(h.posts[k].data, "ejectedNodes") = {<<>>}
                     /\ h.posts[k].host = loc[Local].liveNodeIp
        /\ h.topology.made =>
              /\ h.posts # <<>>
              /\ h.posts[Len(h.posts)].path = "/controller/rebalance"
              /\ \A k \in DOMAIN h.topology.nodes :
                     /\ h.topology.nodes[k].t = "object"
                     /\ h.topology.nodes[k].otpNode.t = "string"
              /\ FieldValues(h.posts[Len(h.posts)].data, "knownNodes")
                     = {StringsJoin(OtpNodesOf(h.topology.nodes), <<",">>)}

\* the rebalance request has just been issued for a topology of two nodes:
\* it names the peer and then the agent itself
RebalanceNamesBothNodes ==
    /\ hist[Local].topology.made
    /\ Len(hist[Local].topology.nodes) = 2
    /\ FieldValues(hist[Local].posts[Len(hist[Local].posts)].data, "knownNodes")
          = {OtpOf(loc[Local].liveNodeIp) \o <<",">> \o OtpOf(cb[Local].LocalCouchbaseIp)}

\* the request was sent with the factory-default identity
FactoryDefault(req) ==
    /\ req.user = COUCHBASE_DEFAULT_ADMIN_USERNAME
    /\ req.password = COUCHBASE_DEFAULT_ADMIN_PASSWORD

\* the request was sent with the identity the agent is configured with
Configured(a, req) ==
    /\ req.user = cb[a].AdminUsername
    /\ req.password = cb[a].AdminPassword

\* C14: of the requests of a run, only the first POST of a first-node
\* bootstrap, the one to /settings/web, is sent with the factory-default
\* identity, and once ClusterInit has posted there is exactly one such
\* request; every other POST and every GET is sent with the configured
\* identity, and a run on the join path sends no request with the
\* factory-default identity.
DefaultIdentityOnlyForClusterInit ==
    LET a == Local
        h == hist[a]
        byDefault == {k \in DOMAIN h.posts : FactoryDefault(h.posts[k])}
    IN  /\ \A k \in DOMAIN h.posts :
              IF k = 1 /\ h.posts[k].path = "/settings/web"
              THEN FactoryDefault(h.posts[k]) /\ loc[a].success
              ELSE Configured(a, h.posts[k]) /\ ~FactoryDefault(h.posts[k])
        /\ \A g \in h.gets : Configured(a, g) /\ ~FactoryDefault(g)
        /\ Posted(a, "/settings/web") <=> byDefault = {1}
        /\ (Called(a, "ClusterInit") /\ pc[a] # "ClusterInit") => byDefault = {1}
        /\ Called(a, "JoinExistingCluster") => byDefault = {}

\* the first node has sent its cluster-init, its memory quota, its bucket
\* listing and its bucket creation
FirstNodeRequestsSent ==
    /\ loc[Local].success
    /\ Len(hist[Local].posts) = 3
    /\ hist[Local].posts[3].path = "/pools/default/buckets"
    /\ \E g \in hist[Local].gets : g.path = "/pools/default/buckets"

\* the number a text of decimal digits stands for
RECURSIVE DecimalValue(_)
DecimalValue(text) ==
    IF text = <<>> THEN 0
    ELSE 10 * DecimalValue(SubSeq(text, 1, Len(text) - 1))
         + (CHOOSE d \in 0 .. 9 : DecimalDigits[d + 1] = text[Len(text)])

\* C15: the memory quota SetClusterRam posts is the decimal text of
\* floor(m * 75 / 100) for the host memory m it read (3000 for 4000); when the
\* memory could not be read the POST is issued all the same, with the quota
\* 1024, and the error of the read is not what the call returns.
ClusterRamQuota ==
    LET h == hist[Local]
        m == h.memory
    IN  m.made =>
            /\ h.posts # <<>>
            /\ h.posts[Len(h.posts)].path = "/pools/default"
            /\ \E quota \in FieldValues(h.posts[Len(h.posts)].data, "memoryQuota") :
                   /\ FieldValues(h.posts[Len(h.posts)].data, "memoryQuota") = {quota}
                   /\ IF m.err = NoErr
                      THEN /\ 100 * DecimalValue(quota) <= 75 * m.totalRamMb
                           /\ 75 * m.totalRamMb < 100 * (DecimalValue(quota) + 1)
                           /\ quota = Decimal(DecimalValue(quota))
                           /\ m.totalRamMb = 4000 => quota = <<"3", "0", "0", "0">>
                      ELSE /\ quota = <<"1", "0", "2", "4">>
                           /\ h.raised # m.err
                           /\ retErr[Local] # m.err
            /\ pc[Local] = "CreateDefaultBucket" <=> h.raised = NoErr

\* the host's memory could not be read, the quota was posted and accepted and
\* the run has gone on to the bucket
QuotaPostedAfterFailedRead ==
    /\ hist[Local].memory.made
    /\ hist[Local].memory.err # NoErr
    /\ pc[Local] = "CreateDefaultBucket"

\* the rebalance request the joining node posts names the peer and the node
RebalanceOfBothPosted ==
    \E k \in DOMAIN hist[Local].posts :
        /\ hist[Local].posts[k].path = "/controller/rebalance"
        /\ FieldValues(hist[Local].posts[k].data, "knownNodes")
              = {OtpOf(IpOf(Peer)) \o <<",">> \o OtpOf(IpOf(Local))}

\* C16: a second agent, started while a healthy peer heartbeats and the store
\* and the cluster answer successfully with no rebalance running, eventually
\* holds an election that finds the directory, then discovers the peer, then
\* adds itself successfully, then reads the rebalance status "none", then
\* posts the rebalance naming the nodes the peer reported, and then is in
\* EventLoop.
SecondNodeJoins ==
    <>(/\ hist[Local].election.resp = "exists"
       /\ <>(/\ hist[Local].find.ip = IpOf(Peer)
              /\ <>(/\ hist[Local].addNode.made
                     /\ hist[Local].addNode.ret = NoErr
                     /\ hist[Local].status = "unread"
                     /\ <>(/\ hist[Local].status = "none"
                            /\ ~Posted(Local, "/controller/rebalance")
                            /\ <>(/\ RebalanceOfBothPosted
                                   /\ <>(pc[Local] = "PublishNodeStateEtcd"))))))

\* the second node has joined and both nodes have their entries in the
\* membership directory
BothNodesPublished ==
    /\ pc[Local] \in HbPcs
    /\ RebalanceOfBothPosted
    /\ hist[Local].added = "ok"
    /\ DOMAIN etcd.nodes = {OwnKey(Local), OwnKey(Peer)}

\* C17: whenever the membership directory exists, what brought it into
\* existence was an election that returned isFirst = true, and the agent that
\* won it is known; no write of EventLoop has created it.
DirectoryOnlyByElection ==
    etcd.dir => (dirCreatedBy = "election" /\ winners # {})

\* the agent makes no store call: its process died, StartCouchbaseNode
\* returned, or it has not made its first call yet
Silent(a) == pc[a] \in {"crashed", "returned", "StartCouchbaseNode"}

\* C18: once every agent is silent, a membership directory that still exists
\* is one that expires: it carries a TTL, so that it disappears and the
\* election of an agent started afterwards can return isFirst = true.
SilentDirectoryExpires ==
    (\A a \in Agents : Silent(a)) => (etcd.dir => etcd.ttl # TTL_NONE)

\* C19: an agent that lost the election to a winner that eventually
\* heartbeats, and whose store and cluster calls are answered successfully,
\* does not give up: its StartCouchbaseNode does not return.
JoinerOutwaitsWinner == pc[Local] # "returned"

\* C19, with the bound of the code: an agent that lost the election to a
\* winner that eventually heartbeats either finds the winner's entry within
\* its 10 discovery attempts, and then joins and reaches EventLoop, or makes
\* 10 attempts that find no entry and returns "Failed to join cluster after
\* several retries".
JoinerConvergesWithinBudget ==
    /\ <>(pc[Local] \in HbPcs \/ pc[Local] = "returned")
    /\ (pc[Local] = "JoinLiveNode") ~> (pc[Local] \in HbPcs)
    /\ [](pc[Local] = "returned" =>
            /\ retErr[Local] = ErrJoinRetries
            /\ hist[Local].finds = MAX_RETRIES_JOIN_CLUSTER
            /\ hist[Local].find.ip = <<>>
            /\ hist[Local].slept = 10 * MAX_RETRIES_JOIN_CLUSTER)

\* the agent lost the election while the winner had published nothing, found
\* no entry at first and has now found the winner's
WinnerFoundAfterRetries ==
    /\ pc[Local] = "JoinLiveNode"
    /\ hist[Local].finds >= 2
    /\ loc[Local].liveNodeIp = IpOf(Peer)
    /\ winners = {Peer}

\* the function agent a entered last
LastCalled(a) ==
    IF hist[a].calls = <<>> THEN "none" ELSE hist[a].calls[Len(hist[a].calls)]

\* C20: a network error of the topology read of the membership check, or of
\* the rebalance-progress read, does not end the join: StartCouchbaseNode
\* does not return that error from JoinLiveNode or from
\* WaitUntilNoRebalanceRunning after the one read that failed.
JoinReadFailureIsRetried ==
    ~(/\ pc[Local] = "returned"
      /\ retErr[Local] = ErrConnRefused
      /\ LastCalled(Local) \in {"JoinLiveNode", "WaitUntilNoRebalanceRunning"})

\* an element of a topology that is no object or lacks a string hostname,
\* status or otpNode
Malformed(node) ==
    \/ node.t # "object"
    \/ node.hostname.t # "string"
    \/ node.status.t # "string"
    \/ node.otpNode.t # "string"

\* the topology has a malformed element
HasMalformed(nodes) == \E k \in DOMAIN nodes : Malformed(nodes[k])

\* C21: a membership check made on a topology that has a malformed element
\* returns an error, and a topology for which OtpNodeList returned its list
\* has no malformed element: no malformed element is skipped.
MalformedEntryIsAnError ==
    /\ (hist[Local].member.made /\ HasMalformed(hist[Local].member.nodes)) =>
           hist[Local].member.err # NoErr
    /\ hist[Local].topology.made => ~HasMalformed(hist[Local].topology.nodes)

\* the part of a hostname before its first ":" (the whole text without one)
RECURSIVE HostPart(_)
HostPart(hostname) ==
    IF hostname = <<>> \/ Head(hostname) = ":" THEN <<>>
    ELSE <<Head(hostname)>> \o HostPart(Tail(hostname))

\* the topology lists the node of this address with status "healthy"
ListsHealthy(nodes, ip) ==
    \E k \in DOMAIN nodes :
        /\ nodes[k].t = "object"
        /\ nodes[k].hostname.t = "string"
        /\ HostPart(nodes[k].hostname.v) = ip
        /\ nodes[k].status = JStr(<<"healthy">>)

\* C22: the membership check answers true only for a topology that lists the
\* local node itself, by its own address, with status "healthy".
InClusterOnlyForOwnAddress ==
    (hist[Local].member.made /\ hist[Local].member.ok) =>
        ListsHealthy(hist[Local].member.nodes, cb[Local].LocalCouchbaseIp)

\* the indices of the buckets named "default" in a list
NamedDefault(list) ==
    {k \in DOMAIN list : list[k].t = "object" /\ list[k].name = JStr(<<"default">>)}

\* C23: CreateDefaultBucket posts the creation exactly when the listing it
\* has just read was read without error and has no bucket named "default";
\* it returns the error of a failed read and nil when the bucket is listed;
\* a run against a server that accepted the creation earlier reads that
\* bucket, so the server never has two buckets named "default".
BucketPostedIffNoDefaultListed ==
    /\ hist[Local].listing.made =>
          (hist[Local].listing.posted <=>
              /\ hist[Local].listing.err = NoErr
              /\ NamedDefault(hist[Local].listing.buckets) = {})
    /\ hist[Local].listing.made =>
          (hist[Local].listing.posted <=>
              /\ hist[Local].posts # <<>>
              /\ hist[Local].posts[Len(hist[Local].posts)].path = "/pools/default/buckets")
    /\ (hist[Local].listing.made /\ hist[Local].listing.err # NoErr) =>
          retErr[Local] = hist[Local].listing.err
    /\ (hist[Local].listing.made /\ hist[Local].listing.err = NoErr
           /\ NamedDefault(hist[Local].listing.buckets) # {}) =>
          retErr[Local] = NoErr
    /\ Cardinality(NamedDefault(serverBuckets[Local])) <= 1

\* a later run reads the bucket an earlier run created and posts nothing
SecondRunFindsCreatedBucket ==
    /\ hist[Local].listing.made
    /\ hist[Local].listing.err = NoErr
    /\ Len(hist[Local].listing.buckets) = 3
    /\ NamedDefault(hist[Local].listing.buckets) = {3}
    /\ ~hist[Local].listing.posted
    /\ \A k \in DOMAIN hist[Local].posts :
          hist[Local].posts[k].path # "/pools/default/buckets"
    /\ retErr[Local] = NoErr

\* C24: IsRebalancing returns (false, nil) exactly for the string status
\* "none", (true, nil) for every other string status and true with an error
\* when the read failed or the status is no string; the wait for "no
\* rebalance running" ends well only on the status "none".
NotRebalancingOnlyOnNone ==
    LET h == hist[Local].rebalance
        isNone == h.resp.err = NoErr /\ h.resp.status = JStr(<<"none">>)
    IN  /\ h.made =>
              /\ (~h.rebalancing /\ h.err = NoErr) <=> isNone
              /\ (h.resp.err = NoErr /\ h.resp.status.t = "string" /\ ~isNone) =>
                    (h.rebalancing /\ h.err = NoErr)
              /\ (h.resp.err # NoErr \/ h.resp.status.t # "string") =>
                    (h.rebalancing /\ h.err # NoErr)
        /\ (Called(Local, "TriggerRebalance") \/ pc[Local] = "TriggerRebalance") =>
              (h.made /\ isNone)

\* the status "None" was read as a rebalance in progress and the wait goes on
OtherStatusKeepsWaiting ==
    /\ hist[Local].rebalance.made
    /\ hist[Local].rebalance.resp.status = JStr(<<"None">>)
    /\ hist[Local].rebalance.rebalancing
    /\ hist[Local].rebalance.err = NoErr
    /\ pc[Local] = "WaitUntilNoRebalanceRunning"
    /\ loc[Local].i = 2

\* StartCouchbaseNode has returned or is in EventLoop
LeftStartup == pc[Local] \in HbPcs \cup {"returned"}

\* C25, as stated: whatever the store and the cluster API do, no retry loop
\* of StartCouchbaseNode begins an eleventh attempt, and StartCouchbaseNode
\* returns an error or enters EventLoop in the end.
StartupEndsWithinRetries ==
    /\ [](loc[Local].i < MAX_RETRIES_JOIN_CLUSTER)
    /\ [](loc[Local].i < MAX_RETRIES_START_COUCHBASE)
    /\ <>LeftStartup

\* C25, with the premise the code needs: no retry loop of StartCouchbaseNode
\* begins an eleventh attempt whatever the store and the cluster API do, and
\* if every command and every request of StartCouchbaseNode returns, with
\* whatever answer or error, StartCouchbaseNode returns an error or enters
\* EventLoop in the end.
StartupEndsIfCallsReturn ==
    /\ [](loc[Local].i < MAX_RETRIES_JOIN_CLUSTER)
    /\ [](loc[Local].i < MAX_RETRIES_START_COUCHBASE)
    /\ ([]~Blocked(Local)) => <>LeftStartup

\* the rebalance wait has used up its ten attempts and StartCouchbaseNode
\* has returned its error
RebalanceWaitExhausted ==
    /\ pc[Local] = "returned"
    /\ retErr[Local] = <<"Unable", "to", "rebalance", "after", "several", "attempts">>
    /\ hist[Local].slept = 100 * MAX_RETRIES_JOIN_CLUSTER
    /\ hist[Local].rebalance.rebalancing

\* C26: a waiter's worker never returns an error: a failed FindLiveNode and
\* a failed or negative health check are "not yet", so the waiter returns
\* nil or the giving-up error; when it gives up, the worker has made
\* maxAttempts + 1 attempts and the sleeper was called after each of them,
\* with the attempt numbers 1, 2, ..., maxAttempts + 1 in this order.
WaitersFailOnlyByGivingUp ==
    LET ev == rl.events
        m  == rl.maxAttempts
    IN  rl.waiter # "none" =>
          /\ \A k \in DOMAIN ev :
                /\ ev[k].op = (IF k % 2 = 1 THEN "worker" ELSE "sleeper")
                /\ ev[k].op = "worker" => ev[k].err = NoErr
                /\ ev[k].op = "sleeper" => ev[k].n = k \div 2
          /\ (rl.check.made /\ (rl.check.err # NoErr \/ ~rl.check.ok)) =>
                /\ ev[Len(ev)] = WorkerEvent(FALSE, NoErr)
                /\ rl.pc = "sleeper"
          /\ rl.pc = "returned" => rl.result \in {NoErr, ErrGivingUp(m + 1)}
          /\ (rl.pc = "returned" /\ rl.result # NoErr) =>
                /\ WorkerCalls(ev) = m + 1
                /\ Len(ev) = 2 * (m + 1)
                /\ \A k \in DOMAIN ev : ev[k].op = "worker" => ~ev[k].flag
                /\ \A k \in DOMAIN ev :
                      ev[k].op = "sleeper" => (ev[k].flag <=> k < Len(ev))

\* WaitUntilNumNodesRunning gave up after the largest number of attempts of
\* the model, its last sleeper call having stopped the loop
WaiterGaveUpAfterAllAttempts ==
    /\ rl.waiter = "WaitUntilNumNodesRunning"
    /\ rl.maxAttempts = MaxMaxAttempts
    /\ rl.pc = "returned"
    /\ rl.result = ErrGivingUp(MaxMaxAttempts + 1)
    /\ WorkerCalls(rl.events) = MaxMaxAttempts + 1
    /\ rl.events[Len(rl.events)].n = MaxMaxAttempts + 1
    /\ etcd.dir

\* C27: for a topology that lists no node CheckAllNodesClusterHealthy
\* returns (true, nil) and WaitUntilClusterRunning returns nil at once; it
\* returns (false, nil) only for a list with a node whose status is a string
\* other than "healthy", never because of the list's length.
EmptyClusterCountsAsRunning ==
    LET c == rl.check
    IN  (rl.waiter = "WaitUntilClusterRunning" /\ c.made) =>
          /\ c.numNodes = -1
          /\ (c.got.err = NoErr /\ c.got.nodes = <<>>) =>
                /\ c.ok /\ c.err = NoErr
                /\ rl.pc = "returned" /\ rl.result = NoErr
          /\ (~c.ok /\ c.err = NoErr) =>
                \E k \in DOMAIN c.got.nodes :
                    /\ c.got.nodes[k].t = "object"
                    /\ c.got.nodes[k].status.t = "string"
                    /\ c.got.nodes[k].status.v # <<"healthy">>

\* the first attempt found a peer whose topology lists no node, and
\* WaitUntilClusterRunning returned nil
RunningWithoutANode ==
    /\ rl.waiter = "WaitUntilClusterRunning"
    /\ rl.check.made
    /\ rl.check.got = [nodes |-> <<>>, err |-> NoErr]
    /\ rl.check.ok
    /\ rl.events = <<WorkerEvent(TRUE, NoErr)>>
    /\ rl.pc = "returned"
    /\ rl.result = NoErr

=============================================================================
